---- MODULE Spec2Model ----
(***************************************************************************)
(* A model of the arcticwolf NFSv3 server core:                            *)
(*   - the handle directory (src/src/fsal/handle.rs), with its three       *)
(*     RwLocks and the lock scopes of each method;                         *)
(*   - the local FSAL backend (src/src/fsal/local/mod.rs) over an abstract *)
(*     POSIX tree, and the NFS procedure handlers (src/src/nfs/*.rs);      *)
(*   - the per-connection record-marking loop (src/src/rpc/server.rs).     *)
(* Three specifications share the variables:                               *)
(*   SpecHM   threads calling the HandleManager methods concurrently;      *)
(*   SpecNfs  NFS procedures issued over several connections;              *)
(*   SpecConn one TCP connection served by handle_connection.              *)
(***************************************************************************)
EXTENDS Integers, Sequences, FiniteSets, TLC

(***************************************************************************)
(* Bounds of the model.                                                    *)
(***************************************************************************)
\* largest id the counter may hand out in SpecHM
MaxId == 3
\* fragments a client sends on the connection of SpecConn
MaxFragments == 3
\* procedures the clients of SpecNfs issue, GETATTR and READ not counted
MaxOps == 4
MaxEntries == 3

None == "none"

\* An argument or a result of a HandleManager method with the name of its
\* type in front: a path, a handle, an Option<PathBuf>, a bool, a usize.
Tagged(tag, v) == <<tag, v>>
Untag(x) == x[2]
NoValue == <<"none">>

\* Option<T>: the empty sequence for None, a one-element sequence for Some(v).
NoneOpt == <<>>
Some(v) == <<v>>
IsSome(o) == Len(o) = 1
Unwrap(o) == o[1]

\* Path components a client may name.
Names == {"a", "b"}

\* Paths are sequences of components below the export root; <<>> is the root.
Paths == {<<>>} \cup {<<n>> : n \in Names} \cup {<<n, m>> : n \in Names, m \in Names}

\* The paths the handle-directory threads of SpecHM allocate handles for.
HmPaths == {<<n>> : n \in Names}

Threads == {"t1", "t2"}

(***************************************************************************)
(* State.                                                                  *)
(***************************************************************************)
VARIABLES
    \* HandleManager (handle.rs:18-25)
    handle_to_path,   \* function: handle -> path
    path_to_handle,   \* function: path -> handle
    next_id,          \* the id counter
    \* the write side of the two map RwLocks: the holding thread, or None
    wlock_h,
    wlock_p,
    \* one caller per thread: its position inside a HandleManager method
    pc,               \* "idle", a position, or "done" (the call returned)
    op,               \* the method being called
    arg,              \* its argument: a path or a handle
    gen_id,           \* the `id` local of create_handle
    ret,              \* the value returned
    \* history of the calls (not program state)
    lastRet,          \* path -> handle returned by the last completed create_handle
    issued,           \* path -> handles returned by create_handle since p was last unmapped
    \* handle_connection (server.rs:52-137): one TCP connection
    c_pc,             \* position in the loop, or "closed"
    buffer,           \* the fragment accumulator `buffer`
    hdr,              \* the parsed record mark: [last, len], and the body on the wire
    response,         \* the `response` local, <<>> when there is none
    sock_out,         \* the buffers handed to socket.write_all, in order
    flushed,          \* how many of them socket.flush has completed for
    \* history of the connection (not program state)
    nfrags,           \* fragments the client has sent
    cur_rec,          \* bytes of the record being received
    next_read,        \* bytes read from the socket since the last complete record
    rec_log,          \* per complete record: its first bytes and the xids replied
    out_rec,          \* per write_all: the index of the record it answers
    \* LocalFilesystem (local/mod.rs) and the NFS handlers
    fs,               \* the POSIX tree: location -> object
    reply,            \* what the last procedure answered
    \* history of the procedures (not program state)
    gone,             \* handles whose object a REMOVE or RMDIR has deleted
    durable,          \* the last successful WRITE and whether it was committed
    verfs,            \* the write verifiers seen in WRITE and COMMIT replies
    nops,             \* procedures served, GETATTR and READ not counted
    pend,             \* a handler between its backend call and the getattr after it
    \* a client reading one directory with READDIR
    rd,               \* the listing, the count it asks for, and what it got so far
    \* Registry (portmap/registry.rs:18-21)
    mappings,         \* function: (prog, vers, prot) -> port
    \* history of the portmapper calls (not program state)
    pm,               \* the SET and UNSET calls so far, the last call and its result
    \* one file that SETATTR is called on
    sa,               \* its metadata, and the last SETATTR with its reply
    \* one record given to handle_rpc_message (server.rs:140-227)
    rx                \* the record as the client built it, and what was dispatched

hmVars == <<handle_to_path, path_to_handle, next_id, wlock_h, wlock_p,
            pc, op, arg, gen_id, ret, lastRet, issued>>

connVars == <<c_pc, buffer, hdr, response, sock_out, flushed,
              nfrags, cur_rec, next_read, rec_log, out_rec>>

nfsVars == <<fs, reply, gone, durable, verfs, nops, pend>>

pmVars == <<mappings, pm>>

vars == <<hmVars, connVars, nfsVars, rd, pmVars, sa, rx>>

(***************************************************************************)
(* File handles (handle.rs:58-68): 32 bytes, the id in bytes 0..8, the     *)
(* hash of the path in bytes 8..16, zero elsewhere.  A handle is modelled  *)
(* by the two fields that vary.                                            *)
(***************************************************************************)
NameCode(n) == IF n = "a" THEN 1 ELSE 2

\* DefaultHasher over the path: a deterministic function of the path alone.
PathHash(p) ==
    IF Len(p) = 0 THEN 7
    ELSE IF Len(p) = 1 THEN 10 + NameCode(p[1])
    ELSE 20 + 3 * NameCode(p[1]) + NameCode(p[2])

MakeHandle(id, p) == [id |-> id, hash |-> PathHash(p)]

\* A handle no HandleManager ever produced (ids start at 1).
BogusHandle == [id |-> 0, hash |-> 0]

\* path_map.get(&path) of create_handle (handle.rs:43-48)
PathLookup_Never(pmap, p) == NoneOpt
PathLookup(pmap, p) == IF p \in DOMAIN pmap THEN Some(pmap[p]) ELSE NoneOpt

\* handle_map.insert / path_map.insert (handle.rs:75-76)
MapInsert(m, k, v) == [x \in (DOMAIN m) \cup {k} |-> IF x = k THEN v ELSE m[x]]

\* HashMap::remove
MapRemove(m, k) == [x \in (DOMAIN m) \ {k} |-> m[x]]

\* handle_map.get(handle).cloned() of lookup_path (handle.rs:84-87)
LookupPath(hmap, h) == IF h \in DOMAIN hmap THEN Some(hmap[h]) ELSE NoneOpt

EmptyMap == [x \in {} |-> None]

(***************************************************************************)
(* HandleManager::new (handle.rs:29-35): empty maps, counter 1.            *)
(***************************************************************************)
FirstId == 1

NoHistory == [p \in Paths |-> NoneOpt]
NoIssued == [p \in Paths |-> {}]

HmNew ==
    /\ handle_to_path = EmptyMap
    /\ path_to_handle = EmptyMap
    /\ next_id = FirstId
    /\ wlock_h = None
    /\ wlock_p = None

ThreadsIdle ==
    /\ pc = [t \in Threads |-> "idle"]
    /\ op = [t \in Threads |-> None]
    /\ arg = [t \in Threads |-> NoValue]
    /\ gen_id = [t \in Threads |-> 0]
    /\ ret = [t \in Threads |-> NoValue]

\* A connection that was never opened: the state of the connection variables
\* in the specifications that are not about the connection loop.
ConnUnused ==
    /\ c_pc = "closed"
    /\ buffer = <<>>
    /\ hdr = [last |-> FALSE, len |-> 0, body |-> <<>>]
    /\ response = <<>>
    /\ sock_out = <<>>
    /\ flushed = 0
    /\ nfrags = 0
    /\ cur_rec = <<>>
    /\ next_read = 0
    /\ rec_log = <<>>
    /\ out_rec = <<>>

(***************************************************************************)
(* The tree the backend works on.  A location is a path below the export   *)
(* root, or OutsidePath: a regular file that lives outside the root.       *)
(***************************************************************************)
OutsidePath == <<"..">>
Locs == Paths \cup {OutsidePath}

NoObj == [kind |-> "none", data |-> <<>>, target |-> <<>>]
FileObj(d) == [kind |-> "file", data |-> d, target |-> <<>>]
DirObj == [kind |-> "dir", data |-> <<>>, target |-> <<>>]
SymlinkObj(t) == [kind |-> "symlink", data |-> <<>>, target |-> t]

\* What the file outside the export root holds.
OutsideData == <<7>>

\* An empty export directory, and the file outside it.
EmptyExport ==
    [l \in Locs |-> IF l = <<>> THEN DirObj
                    ELSE IF l = OutsidePath THEN FileObj(OutsideData)
                    ELSE NoObj]

NoReply == [proc_ |-> "none", fh |-> NoneOpt, resolved |-> FALSE, status |-> "none",
            data |-> <<>>, loc |-> NoneOpt, committed_range |-> FALSE,
            count |-> 0, eof |-> FALSE, entries |-> <<>>]

NoWrite == [stage |-> "none", conn |-> "none", loc |-> <<>>, offset |-> 0, data |-> <<>>]

\* No handler is between two of its backend calls.
NoPend == [stage |-> "none", proc_ |-> "none", h |-> BogusHandle, pre_ok |-> FALSE,
           op_ok |-> FALSE, err_status |-> "none", post_ok |-> FALSE,
           pre_follows |-> FALSE, post_follows |-> FALSE]

\* No directory is being read.
ReaddirUnused ==
    rd = [listing |-> <<>>, count |-> 0, cookie |-> 0, seen |-> <<>>, eof |-> TRUE,
          calls |-> 0, cookieverf |-> <<>>, status |-> "none", got |-> 0]

\* Registry::new (registry.rs:25-29): no mapping, and no call made yet.
NoPmapCall == [op |-> "none", key |-> <<0, 0, 0>>, ok |-> FALSE, port |-> 0]

PmapUnused ==
    /\ mappings = << >>
    /\ pm = [log |-> <<>>, last |-> NoPmapCall, before |-> << >>]

\* The metadata SETATTR reads and changes: FileAttributes (local/mod.rs:131-167).
FileMeta(exists, size, mode, ctime) ==
    [exists |-> exists, size |-> size, mode |-> mode, ctime |-> ctime,
     uid |-> 0, isdir |-> FALSE, owned |-> TRUE]

\* What one SETATTR asks for (sattr3): each attribute is set or left alone.
NoSattr == [size |-> <<>>, mode |-> <<>>, uid |-> <<>>]

NoSetattr == [status |-> "none", check |-> FALSE, guard |-> <<0, 0>>,
              req |-> NoSattr,
              before |-> FileMeta(FALSE, 0, 0, <<0, 0>>),
              after |-> FileMeta(FALSE, 0, 0, <<0, 0>>)]

SetattrUnused ==
    sa = [file |-> FileMeta(FALSE, 0, 0, <<0, 0>>), last |-> NoSetattr, calls |-> 0]

NoRecord == [data |-> <<>>, cred |-> 0, verf |-> 0, args |-> <<>>, stage |-> "none",
             dispatched |-> FALSE, args_data |-> <<>>]

RxUnused == rx = NoRecord

NfsUnused ==
    /\ pend = NoPend
    /\ fs = EmptyExport
    /\ reply = NoReply
    /\ gone = {}
    /\ durable = NoWrite
    /\ verfs = {}
    /\ nops = 0

InitHM ==
    /\ HmNew
    /\ ThreadsIdle
    /\ lastRet = NoHistory
    /\ issued = NoIssued
    /\ ConnUnused
    /\ NfsUnused
    /\ ReaddirUnused
    /\ PmapUnused
    /\ SetattrUnused
    /\ RxUnused

\* Handles a caller may pass: the handles the directory holds, and one it does
\* not hold (never produced, or removed since).
HmHandles == (DOMAIN handle_to_path) \cup {BogusHandle}

\* What the HandleManager methods leave alone.
HmFrame == UNCHANGED <<connVars, nfsVars, rd, pmVars, sa, rx>>

\* create_handle returned h for path p (history only).
NoteCreated(p, h) ==
    /\ lastRet' = [lastRet EXCEPT ![p] = Some(h)]
    /\ issued' = [issued EXCEPT ![p] = @ \cup {h}]

(***************************************************************************)
(* create_handle (handle.rs:41-81), one action per lock scope.             *)
(***************************************************************************)
\* handle.rs:43-48: read lock on path_to_handle, return the existing handle.
CreateCheck(t, p) ==
    /\ HmFrame
    /\ pc[t] = "idle"
    /\ wlock_p = None
    /\ op' = [op EXCEPT ![t] = "create_handle"]
    /\ arg' = [arg EXCEPT ![t] = Tagged("path", p)]
    /\ LET found == PathLookup(path_to_handle, p) IN
         IF IsSome(found)
         THEN /\ pc' = [pc EXCEPT ![t] = "done"]
              /\ ret' = [ret EXCEPT ![t] = Tagged("handle", Unwrap(found))]
              /\ NoteCreated(p, Unwrap(found))
         ELSE /\ next_id + Cardinality({u \in Threads : pc[u] = "c_id"}) <= MaxId
              /\ pc' = [pc EXCEPT ![t] = "c_id"]
              /\ UNCHANGED <<ret, lastRet, issued>>
    /\ UNCHANGED <<handle_to_path, path_to_handle, next_id, wlock_h, wlock_p, gen_id>>

\* A counter that is read and left as it is.
IncrementId_Stuck(id) == id

\* handle.rs:54: *next_id += 1
IncrementId(id) == id + 1

\* handle.rs:51-56: write lock on next_id, take the current value, increment.
CreateGenId(t) ==
    /\ HmFrame
    /\ pc[t] = "c_id"
    /\ pc' = [pc EXCEPT ![t] = "c_lock_h"]
    /\ gen_id' = [gen_id EXCEPT ![t] = next_id]
    /\ next_id' = IncrementId(next_id)
    /\ UNCHANGED <<handle_to_path, path_to_handle, wlock_h, wlock_p, op, arg, ret,
                   lastRet, issued>>

\* handle.rs:72: self.handle_to_path.write()
CreateLockH(t) ==
    /\ HmFrame
    /\ pc[t] = "c_lock_h"
    /\ pc' = [pc EXCEPT ![t] = "c_lock_p"]
    /\ wlock_h = None
    /\ wlock_h' = t
    /\ UNCHANGED <<handle_to_path, path_to_handle, next_id, wlock_p, op, arg, gen_id,
                   ret, lastRet, issued>>

\* handle.rs:73: self.path_to_handle.write()
CreateLockP(t) ==
    /\ HmFrame
    /\ pc[t] = "c_lock_p"
    /\ pc' = [pc EXCEPT ![t] = "c_insert"]
    /\ wlock_p = None
    /\ wlock_p' = t
    /\ UNCHANGED <<handle_to_path, path_to_handle, next_id, wlock_h, op, arg, gen_id,
                   ret, lastRet, issued>>

\* An insert that returns with the guard of path_to_handle still held.
CreateInsert_KeepsGuard(t) ==
    /\ HmFrame
    /\ pc[t] = "c_insert"
    /\ pc' = [pc EXCEPT ![t] = "done"]
    /\ LET path == Untag(arg[t])
           h == MakeHandle(gen_id[t], path)
       IN
         /\ handle_to_path' = MapInsert(handle_to_path, h, path)
         /\ path_to_handle' = MapInsert(path_to_handle, path, h)
         /\ ret' = [ret EXCEPT ![t] = Tagged("handle", h)]
         /\ NoteCreated(path, h)
    /\ wlock_h' = None
    /\ UNCHANGED <<next_id, op, arg, gen_id, wlock_p>>

\* handle.rs:75-80: both inserts, the guards drop, the new handle is returned.
CreateInsert(t) ==
    /\ HmFrame
    /\ pc[t] = "c_insert"
    /\ pc' = [pc EXCEPT ![t] = "done"]
    /\ LET path == Untag(arg[t])
           h == MakeHandle(gen_id[t], path)
       IN
         /\ handle_to_path' = MapInsert(handle_to_path, h, path)
         /\ path_to_handle' = MapInsert(path_to_handle, path, h)
         /\ ret' = [ret EXCEPT ![t] = Tagged("handle", h)]
         /\ NoteCreated(path, h)
    /\ wlock_h' = None
    /\ wlock_p' = None
    /\ UNCHANGED <<next_id, op, arg, gen_id>>

(***************************************************************************)
(* remove_handle (handle.rs:96-107).                                       *)
(***************************************************************************)
\* handle.rs:97: self.handle_to_path.write()
RemoveLockH(t, h) ==
    /\ HmFrame
    /\ pc[t] = "idle"
    /\ wlock_h = None
    /\ wlock_h' = t
    /\ op' = [op EXCEPT ![t] = "remove_handle"]
    /\ arg' = [arg EXCEPT ![t] = Tagged("handle", h)]
    /\ pc' = [pc EXCEPT ![t] = "r_lock_p"]
    /\ UNCHANGED <<handle_to_path, path_to_handle, next_id, wlock_p, gen_id, ret,
                   lastRet, issued>>

\* handle.rs:98: self.path_to_handle.write()
RemoveLockP(t) ==
    /\ HmFrame
    /\ pc[t] = "r_lock_p"
    /\ pc' = [pc EXCEPT ![t] = "r_remove"]
    /\ wlock_p = None
    /\ wlock_p' = t
    /\ UNCHANGED <<handle_to_path, path_to_handle, next_id, wlock_h, op, arg, gen_id,
                   ret, lastRet, issued>>

\* handle.rs:100-106: remove the handle and, when it was mapped, its path.
RemoveDo(t) ==
    /\ HmFrame
    /\ pc[t] = "r_remove"
    /\ pc' = [pc EXCEPT ![t] = "done"]
    /\ LET found == LookupPath(handle_to_path, Untag(arg[t])) IN
         IF IsSome(found)
         THEN /\ handle_to_path' = MapRemove(handle_to_path, Untag(arg[t]))
              /\ path_to_handle' = MapRemove(path_to_handle, Unwrap(found))
              /\ ret' = [ret EXCEPT ![t] = Tagged("path", found)]
              /\ lastRet' = [lastRet EXCEPT ![Unwrap(found)] = NoneOpt]
              /\ issued' = [issued EXCEPT ![Unwrap(found)] = {}]
         ELSE /\ ret' = [ret EXCEPT ![t] = Tagged("path", NoneOpt)]
              /\ UNCHANGED <<handle_to_path, path_to_handle, lastRet, issued>>
    /\ wlock_h' = None
    /\ wlock_p' = None
    /\ UNCHANGED <<next_id, op, arg, gen_id>>

(***************************************************************************)
(* The readers (handle.rs:84-93, 110-113): one read lock on handle_to_path.*)
(***************************************************************************)
ReadCall(t, name, a, result) ==
    /\ HmFrame
    /\ pc[t] = "idle"
    /\ wlock_h = None
    /\ op' = [op EXCEPT ![t] = name]
    /\ arg' = [arg EXCEPT ![t] = a]
    /\ ret' = [ret EXCEPT ![t] = result]
    /\ pc' = [pc EXCEPT ![t] = "done"]
    /\ UNCHANGED <<handle_to_path, path_to_handle, next_id, wlock_h, wlock_p, gen_id,
                   lastRet, issued>>

HmLookupPath(t, h) ==
    ReadCall(t, "lookup_path", Tagged("handle", h), Tagged("path", LookupPath(handle_to_path, h)))

HmIsValid(t, h) ==
    ReadCall(t, "is_valid", Tagged("handle", h), Tagged("bool", h \in DOMAIN handle_to_path))

HmCount(t) ==
    ReadCall(t, "count", NoValue, Tagged("usize", Cardinality(DOMAIN handle_to_path)))

\* The caller takes the result and is free to call again.
HmReturn(t) ==
    /\ HmFrame
    /\ pc[t] = "done"
    /\ pc' = [pc EXCEPT ![t] = "idle"]
    /\ op' = [op EXCEPT ![t] = None]
    /\ arg' = [arg EXCEPT ![t] = NoValue]
    /\ gen_id' = [gen_id EXCEPT ![t] = 0]
    /\ ret' = [ret EXCEPT ![t] = NoValue]
    /\ UNCHANGED <<handle_to_path, path_to_handle, next_id, wlock_h, wlock_p,
                   lastRet, issued>>

NextHM ==
    \E t \in Threads :
        \/ \E p \in HmPaths : CreateCheck(t, p)
        \/ CreateGenId(t)
        \/ CreateLockH(t)
        \/ CreateLockP(t)
        \/ CreateInsert(t)
        \/ \E h \in HmHandles : RemoveLockH(t, h)
        \/ RemoveLockP(t)
        \/ RemoveDo(t)
        \/ \E h \in HmHandles : HmLookupPath(t, h)
        \/ \E h \in HmHandles : HmIsValid(t, h)
        \/ HmCount(t)
        \/ HmReturn(t)

SpecHM == InitHM /\ [][NextHM]_vars

(***************************************************************************)
(* Bytes and XDR words.                                                    *)
(***************************************************************************)
\* u32::to_be_bytes
U32BE(n) == << n \div 16777216, (n \div 65536) % 256, (n \div 256) % 256, n % 256 >>

\* u32::from_be_bytes of the four bytes of b that start at offset off (0-based)
FromBE(b, off) ==
    ((b[off + 1] * 256 + b[off + 2]) * 256 + b[off + 3]) * 256 + b[off + 4]

\* The most significant byte of 0x80000000 and of 0x7FFFFFFF: a u32 is kept
\* as its four big-endian bytes wherever bit 31 may be set.
LastBitByte == 128

\* server.rs:68: (header_u32 & 0x80000000) != 0
IsLast(mark) == mark[1] >= LastBitByte

\* server.rs:69: header_u32 & 0x7FFFFFFF
FragmentLen(mark) == FromBE(<<mark[1] % LastBitByte, mark[2], mark[3], mark[4]>>, 0)

\* The record mark a client sends in front of a fragment.
ClientMark(last, len) ==
    LET b == U32BE(len) IN <<b[1] + (IF last THEN LastBitByte ELSE 0), b[2], b[3], b[4]>>

(***************************************************************************)
(* The RPC envelope.  protocol/v3/rpc.rs is not among the sources: the     *)
(* CALL and REPLY layouts are taken from section 4.3 of the specification. *)
(***************************************************************************)
\* opaque_auth with flavor AUTH_NONE and an empty body
AuthNone == U32BE(0) \o U32BE(0)

\* A CALL with AUTH_NONE credential and verifier, followed by the arguments.
CallBytes(xid, prog, vers, proc, args) ==
    U32BE(xid) \o U32BE(0) \o U32BE(2) \o U32BE(prog) \o U32BE(vers) \o U32BE(proc)
        \o AuthNone \o AuthNone \o args

\* RpcMessage::deserialize_call: the six fixed words of a CALL.
DeserializeCall(data) ==
    IF Len(data) < 24 \/ FromBE(data, 4) # 0 \/ FromBE(data, 8) # 2
    THEN NoneOpt
    ELSE Some([xid |-> FromBE(data, 0), prog |-> FromBE(data, 12),
               vers |-> FromBE(data, 16), proc_ |-> FromBE(data, 20)])

\* RpcMessage::create_success_reply_with_data: xid, REPLY, MSG_ACCEPTED,
\* verf AUTH_NONE, SUCCESS, then the result.
SuccessReply(xid, res_data) ==
    U32BE(xid) \o U32BE(1) \o U32BE(0) \o AuthNone \o U32BE(0) \o res_data

\* RpcMessage::create_null_reply + serialize_reply
NullReply(xid) == SuccessReply(xid, <<>>)

\* RpcMessage::create_prog_unavail_reply: accept_stat PROG_UNAVAIL = 1
ProgUnavailReply(xid) ==
    U32BE(xid) \o U32BE(1) \o U32BE(0) \o AuthNone \o U32BE(1)

(***************************************************************************)
(* handle_rpc_message (server.rs:140-227) and the three dispatchers.       *)
(***************************************************************************)
PORTMAP_PROGRAM == 100000
MOUNT_PROGRAM == 100005
NFS_PROGRAM == 100003
PORTMAP_V2 == 2
MOUNT_V3 == 3
NFS_V3 == 3
NFS3ERR_NOTSUPP == 10004

\* A length taken as it is, without rounding.
Pad4_Unpadded(len) == len

\* (len + 3) & !3
Pad4(len) == ((len + 3) \div 4) * 4

\* u32::from_be_bytes(..) as usize of a length word.  A length whose top
\* byte is set is larger than any record held here and is only ever compared
\* with data.len(), so it is kept as 2^24.
LenWord(data, off) ==
    IF data[off + 1] = 0 THEN FromBE(data, off) ELSE 16777216

\* server.rs:165-198: the offset of the procedure arguments, or None when
\* the record is too short for the credential or the verifier header.
ArgsOffset(data) ==
    IF Len(data) < 24 + 8 THEN NoneOpt
    ELSE LET off1 == 24 + 8 + Pad4(LenWord(data, 24 + 4)) IN
         IF Len(data) < off1 + 8 THEN NoneOpt
         ELSE Some(off1 + 8 + Pad4(LenWord(data, off1 + 4)))

\* server.rs:199-203
ArgsData(data, args_offset) ==
    IF Len(data) > args_offset THEN SubSeq(data, args_offset + 1, Len(data)) ELSE <<>>

Err == [ok |-> FALSE, bytes |-> <<>>]
Ok(b) == [ok |-> TRUE, bytes |-> b]

\* The result bodies a procedure handler is seen to produce here: the
\* handlers are modelled in SpecNfs; the connection loop only carries bytes.
ResultBodies == {U32BE(0), U32BE(0) \o U32BE(1)}

\* A handler that decodes arguments: Err when they do not decode (the `?` on
\* deserialize_*), otherwise a success reply around its result.
HandlerOutcomes(xid, args_data) ==
    IF Len(args_data) = 0 THEN {Err}
    ELSE {Ok(SuccessReply(xid, r)) : r \in ResultBodies}

\* portmap/mod.rs:39-106
HandlePortmapCall(call, args_data) ==
    IF call.vers # PORTMAP_V2 THEN {Err}
    ELSE IF call.proc_ = 0 THEN {Ok(NullReply(call.xid))}
    ELSE IF call.proc_ \in {1, 2, 3} THEN HandlerOutcomes(call.xid, args_data)
    ELSE {Err}

\* mount/mod.rs:40-100
HandleMountCall(call, args_data) ==
    IF call.vers # MOUNT_V3 THEN {Err}
    ELSE IF call.proc_ = 0 THEN {Ok(NullReply(call.xid))}
    ELSE IF call.proc_ = 1 THEN HandlerOutcomes(call.xid, args_data)
    ELSE IF call.proc_ = 3 THEN {Ok(NullReply(call.xid))}
    ELSE {Err}

\* nfs/dispatcher.rs:23-147
NfsDispatch(call, args_data) ==
    IF call.vers # NFS_V3 THEN {Err}
    ELSE IF call.proc_ = 0 THEN {Ok(NullReply(call.xid))}
    ELSE IF call.proc_ \in 1..21 THEN HandlerOutcomes(call.xid, args_data)
    ELSE {Ok(SuccessReply(call.xid, U32BE(NFS3ERR_NOTSUPP)))}

\* server.rs:140-227: the set of results handle_rpc_message can return.
HandleRpcMessage(data) ==
    LET call == DeserializeCall(data)
        off == ArgsOffset(data)
    IN  IF ~IsSome(call) \/ ~IsSome(off) THEN {Err}
        ELSE LET c == Unwrap(call)
                 args_data == ArgsData(data, Unwrap(off))
             IN  IF c.prog = PORTMAP_PROGRAM THEN HandlePortmapCall(c, args_data)
                 ELSE IF c.prog = MOUNT_PROGRAM THEN HandleMountCall(c, args_data)
                 ELSE IF c.prog = NFS_PROGRAM THEN NfsDispatch(c, args_data)
                 ELSE {Err}

(***************************************************************************)
(* handle_connection (server.rs:52-137).                                   *)
(***************************************************************************)
\* server.rs:118-119: response.len() as u32 | 0x80000000
\* as its big-endian bytes (server.rs:123, record_header.to_be_bytes()).
RecordHeader_NoLastBit(response_len) == U32BE(response_len)
RecordHeader(response_len) ==
    LET b == U32BE(response_len)
    IN  <<IF b[1] >= LastBitByte THEN b[1] ELSE b[1] + LastBitByte, b[2], b[3], b[4]>>

\* server.rs:122-124: record mark and payload in one buffer
FullResponse(resp) == RecordHeader(Len(resp)) \o resp

\* server.rs:126-127: where the loop goes once write_all has returned
PcAfterWrite_NoFlush == "read_header"
PcAfterWrite == "flush"

\* What a client puts on the wire: whole calls, a call cut in two fragments,
\* a record too short to hold an xid, calls for a version the program does
\* not serve, calls for procedures without a handler, and a GETATTR call
\* whose arguments are missing.
NullCall1 == CallBytes(1, NFS_PROGRAM, NFS_V3, 0, <<>>)
ClientBodies ==
    { NullCall1,
      CallBytes(2, NFS_PROGRAM, NFS_V3, 1, U32BE(0)),
      CallBytes(3, 99, 1, 0, <<>>),
      SubSeq(NullCall1, 1, 20),
      SubSeq(NullCall1, 21, 40),
      <<9, 9>>,
      CallBytes(4, NFS_PROGRAM, 2, 0, <<>>),
      CallBytes(5, PORTMAP_PROGRAM, 3, 0, <<>>),
      CallBytes(6, NFS_PROGRAM, NFS_V3, 22, <<>>),
      CallBytes(7, PORTMAP_PROGRAM, PORTMAP_V2, 5, <<>>),
      CallBytes(8, NFS_PROGRAM, NFS_V3, 1, <<>>),
      CallBytes(9, PORTMAP_PROGRAM, PORTMAP_V2, 4, <<>>) }

\* A fragment as the client sends it: the length its record mark announces
\* and the bytes that have followed the mark.  The last one is a mark that
\* announces 16 MiB + 1 bytes, behind which nothing has been sent yet.
ClientFragments ==
    {[len |-> Len(b), body |-> b] : b \in ClientBodies}
        \cup {[len |-> 16777216 + 1, body |-> <<>>]}

\* The first four bytes of a record (all of it when it is shorter).
Head4(rec) == SubSeq(rec, 1, IF Len(rec) < 4 THEN Len(rec) ELSE 4)

ConnFrame == UNCHANGED <<hmVars, nfsVars, rd, pmVars, sa, rx>>

InitConn ==
    /\ HmNew
    /\ ThreadsIdle
    /\ lastRet = NoHistory
    /\ issued = NoIssued
    /\ NfsUnused
    /\ ReaddirUnused
    /\ PmapUnused
    /\ SetattrUnused
    /\ RxUnused
    /\ c_pc = "read_header"
    /\ buffer = <<>>
    /\ hdr = [last |-> FALSE, len |-> 0, body |-> <<>>]
    /\ response = <<>>
    /\ sock_out = <<>>
    /\ flushed = 0
    /\ nfrags = 0
    /\ cur_rec = <<>>
    /\ next_read = 0
    /\ rec_log = <<>>
    /\ out_rec = <<>>

\* server.rs:61-72: read_exact of the 4-byte record mark, parsed.
ConnReadHeader ==
    /\ ConnFrame
    /\ c_pc = "read_header"
    /\ nfrags < MaxFragments
    /\ \E frag \in ClientFragments, last \in BOOLEAN :
         LET mark == ClientMark(last, frag.len)
         IN  hdr' = [last |-> IsLast(mark), len |-> FragmentLen(mark),
                     body |-> frag.body]
    /\ nfrags' = nfrags + 1
    /\ next_read' = next_read + 4
    /\ c_pc' = "read_fragment"
    /\ UNCHANGED <<buffer, response, sock_out, flushed, cur_rec, rec_log, out_rec>>

\* server.rs:62-65: the peer closed; the loop breaks.
ConnPeerClosed ==
    /\ ConnFrame
    /\ c_pc = "read_header"
    /\ c_pc' = "closed"
    /\ UNCHANGED <<buffer, hdr, response, sock_out, flushed, nfrags, cur_rec,
                   next_read, rec_log, out_rec>>

\* server.rs:80-85: vec![0u8; fragment_len] is filled by read_exact, which
\* returns once that many bytes have arrived, and appended to the buffer.
ConnReadFragment ==
    /\ ConnFrame
    /\ c_pc = "read_fragment"
    /\ Len(hdr.body) >= hdr.len
    /\ buffer' = buffer \o SubSeq(hdr.body, 1, hdr.len)
    /\ IF hdr.last
       THEN /\ c_pc' = "process"
            /\ rec_log' = Append(rec_log,
                                 [head |-> Head4(cur_rec \o hdr.body), replies |-> <<>>])
            /\ cur_rec' = <<>>
            /\ next_read' = 0
       ELSE /\ c_pc' = "read_header"
            /\ cur_rec' = cur_rec \o hdr.body
            /\ next_read' = next_read + hdr.len
            /\ UNCHANGED rec_log
    /\ UNCHANGED <<hdr, response, sock_out, flushed, nfrags, out_rec>>

\* server.rs:81: read_exact fails (the peer went away inside a fragment).
ConnReadFails ==
    /\ ConnFrame
    /\ c_pc = "read_fragment"
    /\ c_pc' = "closed"
    /\ UNCHANGED <<buffer, hdr, response, sock_out, flushed, nfrags, cur_rec,
                   next_read, rec_log, out_rec>>

\* server.rs:88-113: the handler's response, the PROG_UNAVAIL reply built
\* from the first four bytes of the buffer, or `continue`.
ConnProcess ==
    /\ ConnFrame
    /\ c_pc = "process"
    /\ \E res \in HandleRpcMessage(buffer) :
         IF res.ok
         THEN /\ response' = res.bytes
              /\ c_pc' = "write"
         ELSE IF Len(buffer) >= 4
         THEN /\ response' = ProgUnavailReply(FromBE(buffer, 0))
              /\ c_pc' = "write"
         ELSE /\ response' = <<>>
              /\ c_pc' = "read_header"
    /\ UNCHANGED <<buffer, hdr, sock_out, flushed, nfrags, cur_rec, next_read,
                   rec_log, out_rec>>

\* server.rs:118-126: socket.write_all(&full_response)
ConnWrite ==
    /\ ConnFrame
    /\ c_pc = "write"
    /\ sock_out' = Append(sock_out, FullResponse(response))
    /\ out_rec' = Append(out_rec, Len(rec_log))
    /\ rec_log' = [rec_log EXCEPT ![Len(rec_log)].replies = Append(@, SubSeq(response, 1, 4))]
    /\ c_pc' = PcAfterWrite
    /\ UNCHANGED <<buffer, hdr, response, flushed, nfrags, cur_rec, next_read>>

\* server.rs:126-127: write_all or flush returns an error; `?` ends the connection.
ConnWriteFails ==
    /\ ConnFrame
    /\ c_pc \in {"write", "flush"}
    /\ c_pc' = "closed"
    /\ UNCHANGED <<buffer, hdr, response, sock_out, flushed, nfrags, cur_rec,
                   next_read, rec_log, out_rec>>

\* server.rs:127-132: socket.flush(), then buffer.clear()
ConnFlush ==
    /\ ConnFrame
    /\ c_pc = "flush"
    /\ flushed' = Len(sock_out)
    /\ buffer' = <<>>
    /\ response' = <<>>
    /\ c_pc' = "read_header"
    /\ UNCHANGED <<hdr, sock_out, nfrags, cur_rec, next_read, rec_log, out_rec>>

NextConn ==
    \/ ConnReadHeader
    \/ ConnPeerClosed
    \/ ConnReadFragment
    \/ ConnReadFails
    \/ ConnProcess
    \/ ConnWrite
    \/ ConnWriteFails
    \/ ConnFlush

SpecConn == InitConn /\ [][NextConn]_vars

(***************************************************************************)
(* std::fs on the tree, as the backend uses it.                            *)
(***************************************************************************)
\* Follow the symbolic links at a location; None on a loop.
RECURSIVE FollowN(_, _, _)
FollowN(f, loc, fuel) ==
    IF loc \notin DOMAIN f \/ f[loc].kind # "symlink" THEN Some(loc)
    ELSE IF fuel = 0 THEN NoneOpt
    ELSE FollowN(f, f[loc].target, fuel - 1)

Follow(f, loc) == FollowN(f, loc, 3)

\* Where the directory entry of path p lives once the parent is resolved;
\* None when the parent does not resolve to a directory.
Entry(f, p) ==
    IF Len(p) <= 1 THEN Some(p)
    ELSE LET d == Follow(f, <<p[1]>>) IN
         IF IsSome(d) /\ f[Unwrap(d)].kind = "dir" /\ Len(Unwrap(d)) <= 1
         THEN Some(Unwrap(d) \o <<p[2]>>)
         ELSE NoneOpt

\* The object path p names with every link followed (what stat, open and
\* canonicalize reach); None when there is none.
Resolve(f, p) ==
    LET e == Entry(f, p) IN
    IF ~IsSome(e) THEN NoneOpt
    ELSE LET l == Follow(f, Unwrap(e)) IN
         IF IsSome(l) /\ Unwrap(l) \in DOMAIN f /\ f[Unwrap(l)].kind # "none"
         THEN l ELSE NoneOpt

\* Where open(O_CREAT) puts a new file for path p: the entry itself, or the
\* missing target of the dangling link found there.
CreateLoc(f, p) ==
    LET e == Entry(f, p) IN
    IF ~IsSome(e) THEN NoneOpt ELSE Follow(f, Unwrap(e))

Children(f, d) == {l \in Paths : Len(l) = Len(d) + 1 /\ SubSeq(l, 1, Len(d)) = d
                                   /\ f[l].kind # "none"}

\* The bytes of a file after `data` is written at `offset` (holes read as 0).
WriteAt(old, offset, data) ==
    LET n == IF Len(old) > offset + Len(data) THEN Len(old) ELSE offset + Len(data) IN
    [i \in 1..n |-> IF i > offset /\ i <= offset + Len(data) THEN data[i - offset]
                    ELSE IF i <= Len(old) THEN old[i] ELSE 0]

\* A read that goes on to the end of the file whatever `count` is.
ReadAt_ToEnd(old, offset, count) ==
    IF offset >= Len(old) THEN <<>> ELSE SubSeq(old, offset + 1, Len(old))

\* One read of up to `count` bytes at `offset`.
ReadAt(old, offset, count) ==
    LET last == IF offset + count < Len(old) THEN offset + count ELSE Len(old) IN
    IF offset >= Len(old) THEN <<>> ELSE SubSeq(old, offset + 1, last)

(***************************************************************************)
(* anyhow errors: the text Display shows (the outermost context, as a      *)
(* sequence of words; the quoted path that follows it is left out where no *)
(* handler looks for a word a path can hold) and the kind of the           *)
(* std::io::Error underneath, "none" when there is none.                   *)
(***************************************************************************)
Failure(msg, kind) ==
    [ok |-> FALSE, msg |-> msg, kind |-> kind, loc |-> NoneOpt, data |-> <<>>,
     f |-> EmptyExport, path |-> NoneOpt]

\* Ok: the location acted on, the bytes returned, the tree afterwards and the
\* path a handle is created for.
Success(loc, data, f, path) ==
    [ok |-> TRUE, msg |-> <<>>, kind |-> "none", loc |-> Some(loc), data |-> data,
     f |-> f, path |-> path]

\* str::contains, word by word
Contains(msg, pat) ==
    \E i \in 0..(Len(msg) - Len(pat)) : SubSeq(msg, i + 1, i + Len(pat)) = pat

\* str::to_lowercase on the words that carry a capital
LowerWord(w) ==
    IF w = "Invalid" THEN "invalid"
    ELSE IF w = "Failed" THEN "failed"
    ELSE IF w = "File" THEN "file"
    ELSE IF w = "Path" THEN "path"
    ELSE w
ToLowercase(msg) == [i \in 1..Len(msg) |-> LowerWord(msg[i])]

\* The text of the io::Error, which {:?} on the anyhow error appends.
OsMessage(kind) ==
    IF kind = "NotFound" THEN <<"No", "such", "file", "or", "directory">>
    ELSE IF kind = "AlreadyExists" THEN <<"File", "exists">>
    ELSE IF kind = "IsADirectory" THEN <<"Is", "a", "directory">>
    ELSE IF kind = "NotADirectory" THEN <<"Not", "a", "directory">>
    ELSE IF kind = "DirectoryNotEmpty" THEN <<"Directory", "not", "empty">>
    ELSE <<>>
DebugText(e) ==
    IF e.kind = "none" THEN e.msg ELSE e.msg \o <<"Caused", "by", ":">> \o OsMessage(e.kind)

(***************************************************************************)
(* LocalFilesystem (local/mod.rs).                                         *)
(***************************************************************************)
\* resolve_handle (local/mod.rs:59-63)
InvalidHandleMsg == <<"Invalid", "file", "handle">>
ResolveHandle(hmap, h) == LookupPath(hmap, h)

\* validate_path (local/mod.rs:68-129): None for Ok(()), else the error.
OutsideRoot == Failure(<<"Path", "is", "outside", "export", "root">>, "none")
ValidatePath(f, p) ==
    LET r == Resolve(f, p) IN
    IF IsSome(r)
    THEN IF Unwrap(r) = OutsidePath THEN Some(OutsideRoot) ELSE NoneOpt
    ELSE LET parent == IF Len(p) <= 1 THEN Some(<<>>) ELSE Resolve(f, <<p[1]>>) IN
         IF ~IsSome(parent)
         THEN Some(Failure(<<"Failed", "to", "canonicalize", "parent", "path">>, "NotFound"))
         ELSE IF Unwrap(parent) = OutsidePath THEN Some(OutsideRoot)
         ELSE NoneOpt

\* getattr (local/mod.rs:201-207): fs::metadata follows links.
FsalGetattr(f, hmap, h) ==
    LET path == ResolveHandle(hmap, h) IN
    IF ~IsSome(path) THEN Failure(InvalidHandleMsg, "none")
    ELSE LET r == Resolve(f, Unwrap(path)) IN
         IF ~IsSome(r) THEN Failure(<<"Failed", "to", "stat">>, "NotFound")
         ELSE Success(Unwrap(r), <<>>, f, NoneOpt)

\* read (local/mod.rs:209-232): File::open follows links.
FsalRead(f, hmap, h, offset, count) ==
    LET path == ResolveHandle(hmap, h) IN
    IF ~IsSome(path) THEN Failure(InvalidHandleMsg, "none")
    ELSE LET r == Resolve(f, Unwrap(path)) IN
         IF ~IsSome(r) THEN Failure(<<"Failed", "to", "open", "file">>, "NotFound")
         ELSE IF f[Unwrap(r)].kind = "dir"
         THEN Failure(<<"Failed", "to", "read", "file">>, "IsADirectory")
         ELSE Success(Unwrap(r), ReadAt(f[Unwrap(r)].data, offset, count), f, NoneOpt)

\* OpenOptions::new().write(true).create(true).open(path), with
\* truncate(true) when `truncate`; `text` is the context of the error.
OpenForWrite(f, p, text, truncate) ==
    LET r == Resolve(f, p)
        c == CreateLoc(f, p)
    IN  IF IsSome(r)
        THEN IF f[Unwrap(r)].kind = "dir" THEN Failure(text, "IsADirectory")
             ELSE Success(Unwrap(r), <<>>,
                          IF truncate THEN [f EXCEPT ![Unwrap(r)] = FileObj(<<>>)] ELSE f,
                          Some(p))
        ELSE IF ~IsSome(c) THEN Failure(text, "NotFound")
        ELSE Success(Unwrap(c), <<>>, [f EXCEPT ![Unwrap(c)] = FileObj(<<>>)], Some(p))

\* write (local/mod.rs:301-329)
FsalWrite(f, hmap, h, offset, data) ==
    LET path == ResolveHandle(hmap, h) IN
    IF ~IsSome(path) THEN Failure(InvalidHandleMsg, "none")
    ELSE LET file == OpenForWrite(f, Unwrap(path),
                                  <<"Failed", "to", "open", "file", "for", "writing">>, FALSE)
             loc == Unwrap(file.loc)
         IN  IF ~file.ok THEN file
             ELSE Success(loc, <<>>,
                          [file.f EXCEPT ![loc] = FileObj(WriteAt(file.f[loc].data, offset, data))],
                          NoneOpt)

\* Names a client may send that are no plain file names.
BadNames == {"..", "a/b"}

\* name.contains('/') || name.contains("..") (e.g. local/mod.rs:374)
NameInvalid(name) == name \in BadNames

\* The checks every directory operation starts with (e.g. local/mod.rs:
\* 371-381): resolve the directory handle, turn down a name with '/' or
\* ".." (the error text is `what`, then the name), join the name,
\* validate_path.  None when they pass, else the error.
DirChecks(f, hmap, dir_handle, name, what) ==
    LET dir_path == ResolveHandle(hmap, dir_handle) IN
    IF ~IsSome(dir_path) THEN Some(Failure(InvalidHandleMsg, "none"))
    ELSE IF NameInvalid(name) THEN Some(Failure(what \o <<name>>, "none"))
    ELSE ValidatePath(f, Unwrap(dir_path) \o <<name>>)

FullPath(hmap, dir_handle, name) == Unwrap(ResolveHandle(hmap, dir_handle)) \o <<name>>

\* lookup (local/mod.rs:175-199)
FsalLookup(f, hmap, dir_handle, name) ==
    LET bad == DirChecks(f, hmap, dir_handle, name,
                         <<"Invalid", "filename">>) IN
    IF IsSome(bad) THEN Unwrap(bad)
    ELSE LET full_path == FullPath(hmap, dir_handle, name)
             r == Resolve(f, full_path)
         IN  IF ~IsSome(r) THEN Failure(<<"File", "not", "found">>, "none")
             ELSE Success(Unwrap(r), <<>>, f, Some(full_path))

\* create (local/mod.rs:370-398): File::create opens with create and truncate.
FsalCreate(f, hmap, dir_handle, name) ==
    LET bad == DirChecks(f, hmap, dir_handle, name,
                         <<"Invalid", "filename">>) IN
    IF IsSome(bad) THEN Unwrap(bad)
    ELSE OpenForWrite(f, FullPath(hmap, dir_handle, name),
                      <<"Failed", "to", "create", "file">>, TRUE)

\* A name a client may ask for that no entry of the tree bears.
AbsentNames == {"directory"}

\* remove (local/mod.rs:400-419): fs::remove_file unlinks the entry itself.
\* The context of its error ends with {:?} of full_path: the components of
\* the path are words of the text.
FsalRemove(f, hmap, dir_handle, name) ==
    LET bad == DirChecks(f, hmap, dir_handle, name,
                         <<"Invalid", "filename">>)
    IN  IF IsSome(bad) THEN Unwrap(bad)
        ELSE LET full_path == FullPath(hmap, dir_handle, name)
                 text == <<"Failed", "to", "remove", "file">> \o full_path
                 e == Entry(f, full_path)
             IN
             IF ~IsSome(e) \/ Unwrap(e) \notin DOMAIN f \/ f[Unwrap(e)].kind = "none"
             THEN Failure(text, "NotFound")
             ELSE IF f[Unwrap(e)].kind = "dir" THEN Failure(text, "IsADirectory")
             ELSE Success(Unwrap(e), <<>>, [f EXCEPT ![Unwrap(e)] = NoObj], NoneOpt)

\* mkdir (local/mod.rs:421-447)
FsalMkdir(f, hmap, dir_handle, name) ==
    LET bad == DirChecks(f, hmap, dir_handle, name,
                         <<"Invalid", "directory", "name">>)
        text == <<"Failed", "to", "create", "directory">>
    IN  IF IsSome(bad) THEN Unwrap(bad)
        ELSE LET full_path == FullPath(hmap, dir_handle, name)
                 e == Entry(f, full_path)
             IN  IF ~IsSome(e) THEN Failure(text, "NotFound")
                 ELSE IF f[Unwrap(e)].kind # "none" THEN Failure(text, "AlreadyExists")
                 ELSE Success(Unwrap(e), <<>>, [f EXCEPT ![Unwrap(e)] = DirObj],
                              Some(full_path))

\* rmdir (local/mod.rs:449-469)
FsalRmdir(f, hmap, dir_handle, name) ==
    LET bad == DirChecks(f, hmap, dir_handle, name,
                         <<"Invalid", "directory", "name">>)
        text == <<"Failed", "to", "remove", "directory">>
    IN  IF IsSome(bad) THEN Unwrap(bad)
        ELSE LET e == Entry(f, FullPath(hmap, dir_handle, name)) IN
             IF ~IsSome(e) \/ f[Unwrap(e)].kind = "none" THEN Failure(text, "NotFound")
             ELSE IF f[Unwrap(e)].kind # "dir" THEN Failure(text, "NotADirectory")
             ELSE IF Children(f, Unwrap(e)) # {} THEN Failure(text, "DirectoryNotEmpty")
             ELSE Success(Unwrap(e), <<>>, [f EXCEPT ![Unwrap(e)] = NoObj], NoneOpt)

\* The tree after rename(2) has moved the object at src, with the entries
\* beneath it, to dst.
MoveTree(f, src, dst) ==
    [l \in Locs |->
        IF l = dst THEN f[src]
        ELSE IF Len(l) = Len(dst) + 1 /\ SubSeq(l, 1, Len(dst)) = dst
        THEN (IF Len(src) = 1 THEN f[src \o <<l[Len(l)]>>] ELSE NoObj)
        ELSE IF l = src \/ (Len(l) = Len(src) + 1 /\ SubSeq(l, 1, Len(src)) = src)
        THEN NoObj
        ELSE f[l]]

\* fs::rename on two entries that have been located (rename(2)).
RenameEntries(f, src, dst, text) ==
    IF f[src].kind = "none" THEN Failure(text, "NotFound")
    ELSE IF src = dst THEN Success(dst, <<>>, f, NoneOpt)
    ELSE IF f[src].kind = "dir" /\ Len(dst) > Len(src) /\ SubSeq(dst, 1, Len(src)) = src
    THEN Failure(text, "InvalidInput")
    ELSE IF f[dst].kind = "none" THEN Success(dst, <<>>, MoveTree(f, src, dst), NoneOpt)
    ELSE IF f[src].kind = "dir" /\ f[dst].kind # "dir" THEN Failure(text, "NotADirectory")
    ELSE IF f[src].kind = "dir" /\ Children(f, dst) # {}
    THEN Failure(text, "DirectoryNotEmpty")
    ELSE IF f[src].kind # "dir" /\ f[dst].kind = "dir" THEN Failure(text, "IsADirectory")
    ELSE Success(dst, <<>>, MoveTree(f, src, dst), NoneOpt)

\* rename (local/mod.rs:471-503).  The handle_manager is not used.
FsalRename(f, hmap, from_dir_handle, from_name, to_dir_handle, to_name) ==
    LET from_dir_path == ResolveHandle(hmap, from_dir_handle)
        to_dir_path == ResolveHandle(hmap, to_dir_handle)
        text == <<"Failed", "to", "rename">>
    IN  IF ~IsSome(from_dir_path) \/ ~IsSome(to_dir_path)
        THEN Failure(InvalidHandleMsg, "none")
        ELSE IF NameInvalid(from_name)
        THEN Failure(<<"Invalid", "source", "name", from_name>>, "none")
        ELSE IF NameInvalid(to_name)
        THEN Failure(<<"Invalid", "target", "name", to_name>>, "none")
        ELSE LET from_full_path == Unwrap(from_dir_path) \o <<from_name>>
                 to_full_path == Unwrap(to_dir_path) \o <<to_name>>
                 bad_from == ValidatePath(f, from_full_path)
                 bad_to == ValidatePath(f, to_full_path)
                 src == Entry(f, from_full_path)
                 dst == Entry(f, to_full_path)
             IN  IF IsSome(bad_from) THEN Unwrap(bad_from)
                 ELSE IF IsSome(bad_to) THEN Unwrap(bad_to)
                 ELSE IF ~IsSome(src) \/ ~IsSome(dst) THEN Failure(text, "NotFound")
                 ELSE RenameEntries(f, Unwrap(src), Unwrap(dst), text)

\* symlink (local/mod.rs:505-536): the target is stored as given.
FsalSymlink(f, hmap, dir_handle, name, target) ==
    LET bad == DirChecks(f, hmap, dir_handle, name,
                         <<"Invalid", "symlink", "name">>)
        text == <<"Failed", "to", "create", "symlink">>
    IN  IF IsSome(bad) THEN Unwrap(bad)
        ELSE LET symlink_path == FullPath(hmap, dir_handle, name)
                 e == Entry(f, symlink_path)
             IN  IF IsSome(Resolve(f, symlink_path))
                 THEN Failure(<<"File", "or", "symlink", "already", "exists">>, "none")
                 ELSE IF ~IsSome(e) THEN Failure(text, "NotFound")
                 ELSE IF f[Unwrap(e)].kind # "none" THEN Failure(text, "AlreadyExists")
                 ELSE Success(Unwrap(e), <<>>, [f EXCEPT ![Unwrap(e)] = SymlinkObj(target)],
                              Some(symlink_path))

\* commit (local/mod.rs:598-623): open for writing without create, sync_all.
FsalCommit(f, hmap, h) ==
    LET path == ResolveHandle(hmap, h)
        text == <<"Failed", "to", "open", "file", "for", "commit">>
    IN  IF ~IsSome(path) THEN Failure(InvalidHandleMsg, "none")
        ELSE LET r == Resolve(f, Unwrap(path)) IN
             IF ~IsSome(r) THEN Failure(text, "NotFound")
             ELSE IF f[Unwrap(r)].kind = "dir" THEN Failure(text, "IsADirectory")
             ELSE Success(Unwrap(r), <<>>, f, NoneOpt)

(***************************************************************************)
(* The status each handler derives from a failed backend call.             *)
(***************************************************************************)
Has(e, words) == Contains(e.msg, words)

\* read.rs:47-57
ReadStatus(e) ==
    IF Has(e, <<"not", "found">>) \/ Has(e, <<"Invalid", "handle">>) THEN "NFS3ERR_STALE"
    ELSE IF Has(e, <<"Not", "a", "file">>) THEN "NFS3ERR_ISDIR"
    ELSE IF Has(e, <<"Permission", "denied">>) THEN "NFS3ERR_ACCES"
    ELSE "NFS3ERR_IO"

\* write.rs:51-65
WriteStatus(e) ==
    IF Has(e, <<"not", "found">>) \/ Has(e, <<"Invalid", "handle">>) THEN "NFS3ERR_STALE"
    ELSE IF Has(e, <<"Not", "a", "file">>) THEN "NFS3ERR_ISDIR"
    ELSE IF Has(e, <<"Permission", "denied">>) THEN "NFS3ERR_ACCES"
    ELSE IF Has(e, <<"No", "space">>) THEN "NFS3ERR_NOSPC"
    ELSE IF Has(e, <<"Read-only">>) THEN "NFS3ERR_ROFS"
    ELSE "NFS3ERR_IO"

\* lookup.rs:50-58
LookupStatus(e) ==
    IF Has(e, <<"not", "found">>) THEN "NFS3ERR_NOENT"
    ELSE IF Has(e, <<"Invalid", "filename">>) THEN "NFS3ERR_INVAL"
    ELSE IF Has(e, <<"Not", "a", "directory">>) THEN "NFS3ERR_NOTDIR"
    ELSE "NFS3ERR_IO"

\* create.rs:66-80 (UNCHECKED, GUARDED) and 94-98 (EXCLUSIVE)
CreateStatus(how, e) ==
    IF Has(e, <<"exists">>) THEN "NFS3ERR_EXIST"
    ELSE IF how = "EXCLUSIVE" THEN "NFS3ERR_IO"
    ELSE IF Has(e, <<"not", "found">>) THEN "NFS3ERR_NOENT"
    ELSE IF Has(e, <<"Not", "a", "directory">>) THEN "NFS3ERR_NOTDIR"
    ELSE IF Has(e, <<"Permission", "denied">>) THEN "NFS3ERR_ACCES"
    ELSE IF Has(e, <<"No", "space">>) THEN "NFS3ERR_NOSPC"
    ELSE IF Has(e, <<"Read-only">>) THEN "NFS3ERR_ROFS"
    ELSE "NFS3ERR_IO"

\* The fallback on the kind of the io::Error (remove.rs:70-78, rmdir.rs:72-80)
KindStatus(e) ==
    IF e.kind = "NotFound" THEN "NFS3ERR_NOENT"
    ELSE IF e.kind = "PermissionDenied" THEN "NFS3ERR_ACCES"
    ELSE "NFS3ERR_IO"

\* remove.rs:61-79
RemoveStatus(e) ==
    IF Has(e, <<"not", "found">>) \/ Has(e, <<"No", "such">>) THEN "NFS3ERR_NOENT"
    ELSE IF Has(e, <<"permission">>) \/ Has(e, <<"Permission">>) THEN "NFS3ERR_ACCES"
    ELSE IF Has(e, <<"directory">>) \/ Has(e, <<"Is", "a", "directory">>) THEN "NFS3ERR_ISDIR"
    ELSE KindStatus(e)

\* rmdir.rs:61-81
RmdirStatus(e) ==
    IF Has(e, <<"not", "found">>) \/ Has(e, <<"No", "such">>) THEN "NFS3ERR_NOENT"
    ELSE IF Has(e, <<"permission">>) \/ Has(e, <<"Permission">>) THEN "NFS3ERR_ACCES"
    ELSE IF Has(e, <<"not", "empty">>) \/ Has(e, <<"Directory", "not", "empty">>)
    THEN "NFS3ERR_NOTEMPTY"
    ELSE IF Has(e, <<"not", "a", "directory">>) \/ Has(e, <<"Not", "a", "directory">>)
    THEN "NFS3ERR_NOTDIR"
    ELSE KindStatus(e)

\* rename.rs:88-120
RenameStatus(e) ==
    IF Has(e, <<"not", "found">>) \/ Has(e, <<"No", "such">>) THEN "NFS3ERR_NOENT"
    ELSE IF Has(e, <<"already", "exists">>) \/ Has(e, <<"File", "exists">>)
    THEN "NFS3ERR_EXIST"
    ELSE IF Has(e, <<"permission">>) \/ Has(e, <<"Permission">>) THEN "NFS3ERR_ACCES"
    ELSE IF Has(e, <<"not", "a", "directory">>) \/ Has(e, <<"Not", "a", "directory">>)
    THEN "NFS3ERR_NOTDIR"
    ELSE IF Has(e, <<"is", "a", "directory">>) \/ Has(e, <<"Is", "a", "directory">>)
    THEN "NFS3ERR_ISDIR"
    ELSE IF Has(e, <<"not", "empty">>) \/ Has(e, <<"Directory", "not", "empty">>)
    THEN "NFS3ERR_NOTEMPTY"
    ELSE IF Has(e, <<"cross-device">>) \/ Has(e, <<"Invalid", "cross-device">>)
    THEN "NFS3ERR_XDEV"
    ELSE IF e.kind = "AlreadyExists" THEN "NFS3ERR_EXIST"
    ELSE KindStatus(e)

\* mkdir.rs:80-99
MkdirStatus(e) ==
    IF Has(e, <<"already", "exists">>) \/ Has(e, <<"File", "exists">>) THEN "NFS3ERR_EXIST"
    ELSE IF Has(e, <<"not", "found">>) \/ Has(e, <<"No", "such">>) THEN "NFS3ERR_NOENT"
    ELSE IF Has(e, <<"permission">>) \/ Has(e, <<"Permission">>) THEN "NFS3ERR_ACCES"
    ELSE IF e.kind = "AlreadyExists" THEN "NFS3ERR_EXIST"
    ELSE KindStatus(e)

\* symlink.rs:84-129, on the {:?} text
SymlinkStatus(e) ==
    LET error_str == DebugText(e) IN
    IF Contains(error_str, <<"No", "such", "file">>) \/ Contains(error_str, <<"not", "found">>)
    THEN "NFS3ERR_NOENT"
    ELSE IF Contains(error_str, <<"already", "exists">>) THEN "NFS3ERR_EXIST"
    ELSE IF Contains(error_str, <<"Permission", "denied">>)
            \/ Contains(error_str, <<"Access", "denied">>) THEN "NFS3ERR_ACCES"
    ELSE IF Contains(error_str, <<"Not", "a", "directory">>) THEN "NFS3ERR_NOTDIR"
    ELSE IF Contains(error_str, <<"Name", "too", "long">>) THEN "NFS3ERR_NAMETOOLONG"
    ELSE IF Contains(error_str, <<"Read-only">>) THEN "NFS3ERR_ROFS"
    ELSE IF Contains(error_str, <<"No", "space">>) THEN "NFS3ERR_NOSPC"
    ELSE IF e.kind = "AlreadyExists" THEN "NFS3ERR_EXIST"
    ELSE KindStatus(e)

\* commit.rs:137-150, on the lower-cased text
CommitStatus(e) ==
    LET error_msg == ToLowercase(e.msg) IN
    IF Contains(error_msg, <<"not", "found">>) \/ Contains(error_msg, <<"no", "such", "file">>)
    THEN "NFS3ERR_NOENT"
    ELSE IF Contains(error_msg, <<"permission", "denied">>)
            \/ Contains(error_msg, <<"access", "denied">>) THEN "NFS3ERR_ACCES"
    ELSE IF Contains(error_msg, <<"is", "a", "directory">>) THEN "NFS3ERR_ISDIR"
    ELSE IF Contains(error_msg, <<"read-only">>) THEN "NFS3ERR_ROFS"
    ELSE "NFS3ERR_IO"

(***************************************************************************)
(* The NFS procedure handlers (src/src/nfs/*.rs) over LocalFilesystem.     *)
(* A handler runs to completion: the backend calls are synchronous and     *)
(* each procedure is one step.                                             *)
(***************************************************************************)
Conns == {"c1", "c2"}
Offsets == {0, 1}
Counts == {1, 2}
Datas == {<<1>>}
Targets == {OutsidePath, <<"b">>}
Hows == {"UNCHECKED", "GUARDED", "EXCLUSIVE"}

\* write.rs:119 and commit.rs:65
WriteVerf == <<0, 1, 2, 3, 4, 5, 6, 7>>
CommitVerf == <<0, 0, 0, 0, 0, 0, 0, 0>>

\* LocalFilesystem::new (local/mod.rs:30-56): the root directory gets the
\* first handle.
RootHandle == MakeHandle(FirstId, <<>>)

InitNfs ==
    /\ handle_to_path = MapInsert(EmptyMap, RootHandle, <<>>)
    /\ path_to_handle = MapInsert(EmptyMap, <<>>, RootHandle)
    /\ next_id = FirstId + 1
    /\ wlock_h = None
    /\ wlock_p = None
    /\ ThreadsIdle
    /\ lastRet = NoHistory
    /\ issued = NoIssued
    /\ ConnUnused
    /\ NfsUnused
    /\ ReaddirUnused
    /\ PmapUnused
    /\ SetattrUnused
    /\ RxUnused

HandlerFrame ==
    UNCHANGED <<connVars, wlock_h, wlock_p, pc, op, arg, gen_id, ret, lastRet, issued, rd, pmVars, sa, rx>>

\* A handler taken as one step: none is left between two backend calls.
NfsFrame == HandlerFrame /\ UNCHANGED pend

\* Handles a client may present: those issued so far and one never issued.
NfsHandles == (DOMAIN handle_to_path) \cup {BogusHandle}

\* One more procedure is served.
Served ==
    /\ nops < MaxOps
    /\ nops' = nops + 1

\* GETATTR and READ change nothing the server keeps: they are not counted.
Asked == UNCHANGED nops

\* The path joined from the directory stays within the depth of Paths.
DirOk(dir_handle) ==
    LET dir_path == ResolveHandle(handle_to_path, dir_handle) IN
    IsSome(dir_path) => Len(Unwrap(dir_path)) < 2

Resolves(h) == IsSome(ResolveHandle(handle_to_path, h))

Answer(name, h, status, data, loc, in_range) ==
    [proc_ |-> name, fh |-> Some(h), resolved |-> Resolves(h), status |-> status,
     data |-> data, loc |-> loc, committed_range |-> in_range,
     count |-> 0, eof |-> FALSE, entries |-> <<>>]

\* handle_manager.create_handle(path) called by one procedure at a time:
\* the steps of create_handle with nothing in between.
WillAllocate(path) == ~IsSome(PathLookup(path_to_handle, path))
IssueHandle(path) ==
    IF ~WillAllocate(path)
    THEN UNCHANGED <<handle_to_path, path_to_handle, next_id>>
    ELSE LET h == MakeHandle(next_id, path) IN
         /\ handle_to_path' = MapInsert(handle_to_path, h, path)
         /\ path_to_handle' = MapInsert(path_to_handle, path, h)
         /\ next_id' = next_id + 1

NoHandleChange == UNCHANGED <<handle_to_path, path_to_handle, next_id>>

\* h names the file of the write tracked in `durable`.
SameFile(h) ==
    LET path == ResolveHandle(handle_to_path, h) IN
    IsSome(path) /\ Resolve(fs, Unwrap(path)) = Some(durable.loc)

\* getattr.rs:25-60: every backend error is answered NFS3ERR_STALE.
NfsGetattr(h) ==
    /\ NfsFrame
    /\ Asked
    /\ \E r \in {FsalGetattr(fs, handle_to_path, h)} :
         reply' = Answer("GETATTR", h, IF r.ok THEN "NFS3_OK" ELSE "NFS3ERR_STALE",
                         <<>>, r.loc, FALSE)
    /\ NoHandleChange
    /\ UNCHANGED <<fs, gone, durable, verfs>>

\* lookup.rs:25-110
NfsLookup(dir_handle, name) ==
    /\ NfsFrame
    /\ Served
    /\ DirOk(dir_handle)
    /\ \E r \in {FsalLookup(fs, handle_to_path, dir_handle, name)} :
         IF ~r.ok
         THEN /\ reply' = Answer("LOOKUP", dir_handle, LookupStatus(r), <<>>, NoneOpt, FALSE)
              /\ NoHandleChange
         ELSE /\ WillAllocate(Unwrap(r.path)) => next_id <= MaxId
              /\ IssueHandle(Unwrap(r.path))
              /\ reply' = Answer("LOOKUP", dir_handle, "NFS3_OK", <<>>, r.loc, FALSE)
    /\ UNCHANGED <<fs, gone, durable, verfs>>

\* read.rs:25-110: the read, then getattr for the post-operation attributes.
\* The handler keeps no per-connection state: the connection is not an input.
NfsRead(h, offset, count) ==
    /\ NfsFrame
    /\ Asked
    /\ \E r \in {FsalRead(fs, handle_to_path, h, offset, count)},
          after \in {FsalGetattr(fs, handle_to_path, h)},
          in_range \in {/\ durable.stage = "committed"
                        /\ SameFile(h)
                        /\ offset = durable.offset
                        /\ count = Len(durable.data)} :
           reply' = [Answer("READ", h,
                            IF ~r.ok THEN ReadStatus(r)
                            ELSE IF ~after.ok THEN "NFS3ERR_IO" ELSE "NFS3_OK",
                            IF r.ok /\ after.ok THEN r.data ELSE <<>>, r.loc, in_range)
                       EXCEPT !.count = IF r.ok /\ after.ok THEN Len(r.data) ELSE 0,
                              !.eof = /\ r.ok /\ after.ok
                                      /\ offset + Len(r.data) >= Len(fs[Unwrap(after.loc)].data)]
    /\ NoHandleChange
    /\ UNCHANGED <<fs, gone, durable, verfs>>

\* write.rs:25-125
NfsWrite(c, h, offset, data) ==
    /\ NfsFrame
    /\ Served
    /\ \E r \in {FsalWrite(fs, handle_to_path, h, offset, data)} :
       \E after \in {FsalGetattr(r.f, handle_to_path, h)} :
       \E status \in {IF ~r.ok THEN WriteStatus(r)
                      ELSE IF ~after.ok THEN "NFS3ERR_IO" ELSE "NFS3_OK"} :
           /\ reply' = Answer("WRITE", h, status, <<>>, r.loc, FALSE)
           /\ fs' = IF r.ok THEN r.f ELSE fs
           /\ verfs' = IF status = "NFS3_OK" THEN verfs \cup {WriteVerf} ELSE verfs
           /\ durable' = IF status = "NFS3_OK"
                         THEN [stage |-> "written", conn |-> c, loc |-> Unwrap(r.loc),
                               offset |-> offset, data |-> data]
                         ELSE IF r.ok THEN NoWrite ELSE durable
    /\ NoHandleChange
    /\ UNCHANGED gone

\* commit.rs:29-76
NfsCommit(c, h) ==
    /\ NfsFrame
    /\ Served
    /\ \E r \in {FsalCommit(fs, handle_to_path, h)} :
         /\ reply' = Answer("COMMIT", h, IF r.ok THEN "NFS3_OK" ELSE CommitStatus(r),
                            <<>>, r.loc, FALSE)
         /\ verfs' = IF r.ok THEN verfs \cup {CommitVerf} ELSE verfs
         /\ durable' = IF /\ r.ok
                          /\ durable.stage = "written"
                          /\ durable.conn = c
                          /\ r.loc = Some(durable.loc)
                       THEN [durable EXCEPT !.stage = "committed"]
                       ELSE durable
    /\ NoHandleChange
    /\ UNCHANGED <<fs, gone>>

\* A procedure that makes an object and returns its handle: the backend
\* call, create_handle, then getattr of the new object and of the directory.
\* `strict` is whether a failing getattr of the new object fails the call.
NfsMake(name, dir_handle, r, err_status, strict) ==
    IF ~r.ok
    THEN /\ reply' = Answer(name, dir_handle, err_status, <<>>, NoneOpt, FALSE)
         /\ NoHandleChange
         /\ UNCHANGED fs
    ELSE /\ WillAllocate(Unwrap(r.path)) => next_id <= MaxId
         /\ IssueHandle(Unwrap(r.path))
         /\ fs' = r.f
         /\ LET obj == Resolve(r.f, Unwrap(r.path))
                dir == FsalGetattr(r.f, handle_to_path, dir_handle)
            IN  reply' = Answer(name, dir_handle,
                                IF strict /\ (~IsSome(obj) \/ ~dir.ok)
                                THEN "NFS3ERR_IO" ELSE "NFS3_OK",
                                <<>>, r.loc, FALSE)

\* create.rs:25-160: every `how` ends in filesystem.create.
NfsCreate(dir_handle, name, how) ==
    /\ NfsFrame
    /\ Served
    /\ DirOk(dir_handle)
    /\ \E r \in {FsalCreate(fs, handle_to_path, dir_handle, name)} :
         NfsMake("CREATE", dir_handle, r, CreateStatus(how, r), TRUE)
    /\ UNCHANGED <<gone, durable, verfs>>

\* mkdir.rs:25-110
NfsMkdir(dir_handle, name) ==
    /\ NfsFrame
    /\ Served
    /\ DirOk(dir_handle)
    /\ \E r \in {FsalMkdir(fs, handle_to_path, dir_handle, name)} :
         NfsMake("MKDIR", dir_handle, r, MkdirStatus(r), FALSE)
    /\ UNCHANGED <<gone, durable, verfs>>

\* symlink.rs:25-82
NfsSymlink(dir_handle, name, target) ==
    /\ NfsFrame
    /\ Served
    /\ DirOk(dir_handle)
    /\ \E r \in {FsalSymlink(fs, handle_to_path, dir_handle, name, target)} :
         NfsMake("SYMLINK", dir_handle, r, SymlinkStatus(r), FALSE)
    /\ UNCHANGED <<gone, durable, verfs>>

\* A procedure that deletes a directory entry.  The handle directory is
\* not told (remove.rs:41-55, rmdir.rs:41-55; local/mod.rs:400-419, 449-469).
NfsDelete(name, dir_handle, entry_name, r, err_status) ==
    /\ reply' = Answer(name, dir_handle, IF r.ok THEN "NFS3_OK" ELSE err_status,
                       <<>>, r.loc, FALSE)
    /\ fs' = IF r.ok THEN r.f ELSE fs
    /\ gone' = IF r.ok
               THEN LET h == PathLookup(path_to_handle,
                                        FullPath(handle_to_path, dir_handle, entry_name))
                    IN  IF IsSome(h) THEN gone \cup {Unwrap(h)} ELSE gone
               ELSE gone
    /\ durable' = IF r.ok /\ r.loc = Some(durable.loc) THEN NoWrite ELSE durable
    /\ NoHandleChange
    /\ UNCHANGED verfs

\* remove.rs:25-87
NfsRemove(dir_handle, name) ==
    /\ NfsFrame
    /\ Served
    /\ DirOk(dir_handle)
    /\ \E r \in {FsalRemove(fs, handle_to_path, dir_handle, name)} :
         NfsDelete("REMOVE", dir_handle, name, r, RemoveStatus(r))

\* rmdir.rs:25-89
NfsRmdir(dir_handle, name) ==
    /\ NfsFrame
    /\ Served
    /\ DirOk(dir_handle)
    /\ \E r \in {FsalRmdir(fs, handle_to_path, dir_handle, name)} :
         NfsDelete("RMDIR", dir_handle, name, r, RmdirStatus(r))

\* The object moved stays within the depth of Paths: a directory that has
\* entries is renamed at the top of the export only.
RenameOk(from_dir_handle, from_name, to_dir_handle) ==
    /\ DirOk(from_dir_handle)
    /\ DirOk(to_dir_handle)
    /\ (Resolves(from_dir_handle) /\ Resolves(to_dir_handle) /\ ~NameInvalid(from_name))
         => LET src == Entry(fs, FullPath(handle_to_path, from_dir_handle, from_name))
            IN  (IsSome(src) /\ Children(fs, Unwrap(src)) # {})
                    => ResolveHandle(handle_to_path, to_dir_handle) = Some(<<>>)

\* rename.rs:24-132: filesystem.rename and the reply; nothing else is told
\* of the new name.
NfsRename(from_dir_handle, from_name, to_dir_handle, to_name) ==
    /\ NfsFrame
    /\ Served
    /\ RenameOk(from_dir_handle, from_name, to_dir_handle)
    /\ \E r \in {FsalRename(fs, handle_to_path, from_dir_handle, from_name,
                             to_dir_handle, to_name)} :
         /\ reply' = Answer("RENAME", from_dir_handle,
                            IF r.ok THEN "NFS3_OK" ELSE RenameStatus(r), <<>>, r.loc, FALSE)
         /\ fs' = IF r.ok THEN r.f ELSE fs
         /\ durable' = IF r.ok THEN NoWrite ELSE durable
    /\ NoHandleChange
    /\ UNCHANGED <<gone, verfs>>

\* The names a client sends with a directory operation.
DirNames == Names \cup BadNames

\* The procedures that work on names, each one whole.
NextDir ==
    \/ \E h \in NfsHandles, n \in DirNames : NfsLookup(h, n)
    \/ \E h \in NfsHandles, n \in DirNames : NfsCreate(h, n, "UNCHECKED")
    \/ \E h \in NfsHandles, n \in DirNames : NfsMkdir(h, n)
    \/ \E h \in NfsHandles, n \in DirNames \cup AbsentNames : NfsRemove(h, n)
    \/ \E h \in NfsHandles, n \in DirNames : NfsRmdir(h, n)
    \/ \E h1 \in NfsHandles, n1 \in DirNames, h2 \in NfsHandles, n2 \in DirNames :
          NfsRename(h1, n1, h2, n2)

SpecDir == InitNfs /\ [][NextDir]_vars

(***************************************************************************)
(* MOUNT MNT (mount/mnt.rs).                                               *)
(***************************************************************************)
\* The directory paths a client asks to mount: "/" and "/a".
Dirpaths == {<<>>, <<"a">>}

\* path.len() of the dirpath string
DirpathLen(dirpath) == IF dirpath = <<>> THEN 1 ELSE 2 * Len(dirpath)

\* generate_file_handle (mnt.rs:67-92): 32 bytes, DefaultHasher of the
\* dirpath string in bytes 0..8, its length in bytes 8..12, zero elsewhere.
\* In the two fields of a handle: bytes 0..8 hold a 64-bit hash (here a
\* value above every id the HandleManager issues), bytes 8..16 the length.
GenerateFileHandle(dirpath) ==
    [id |-> 100 + PathHash(dirpath), hash |-> DirpathLen(dirpath)]

MntHandles == {GenerateFileHandle(d) : d \in Dirpaths}

\* mnt::handle (mnt.rs:21-63): any dirpath is accepted; the handle is
\* generated from it and returned in a MNT3_OK result.  Neither the
\* filesystem nor its HandleManager is consulted.
MountMnt(dirpath) ==
    /\ NfsFrame
    /\ Asked
    /\ reply' = Answer("MNT", GenerateFileHandle(dirpath), "MNT3_OK", <<>>, NoneOpt, FALSE)
    /\ NoHandleChange
    /\ UNCHANGED <<fs, gone, durable, verfs>>

NextNfs ==
    \/ \E d \in Dirpaths : MountMnt(d)
    \/ \E h \in NfsHandles \cup MntHandles : NfsGetattr(h)
    \/ \E h \in NfsHandles, n \in Names : NfsLookup(h, n)
    \/ \E h \in NfsHandles, o \in Offsets, k \in Counts : NfsRead(h, o, k)
    \/ \E c \in Conns, h \in NfsHandles, o \in Offsets, d \in Datas : NfsWrite(c, h, o, d)
    \/ \E c \in Conns, h \in NfsHandles : NfsCommit(c, h)
    \/ \E h \in NfsHandles, n \in Names, how \in Hows : NfsCreate(h, n, how)
    \/ \E h \in NfsHandles, n \in Names : NfsMkdir(h, n)
    \/ \E h \in NfsHandles, n \in Names, t \in Targets : NfsSymlink(h, n, t)
    \/ \E h \in NfsHandles, n \in Names : NfsRemove(h, n)
    \/ \E h \in NfsHandles, n \in Names : NfsRmdir(h, n)

SpecNfs == InitNfs /\ [][NextNfs]_vars

(***************************************************************************)
(* Handlers step by step.  Each connection is a task of its own            *)
(* (server.rs:42), so between the backend call of a handler and the        *)
(* getattr it makes afterwards a handler of another connection can run.    *)
(* One connection's WRITE, READ and REMOVE are taken in two steps here;    *)
(* the other connection's procedures are whole steps in between.           *)
(***************************************************************************)
\* The getattr before the operation and the operation itself.
\* `before` is None for a handler that takes no attributes beforehand.
WccOp(name, h, before, r, err_status) ==
    /\ HandlerFrame
    /\ pend.stage # "after_op"
    /\ pend' = [stage |-> "after_op", proc_ |-> name, h |-> h,
                pre_ok |-> IsSome(before) /\ Unwrap(before).ok,
                op_ok |-> r.ok, err_status |-> err_status, post_ok |-> FALSE,
                pre_follows |-> FALSE, post_follows |-> FALSE]
    /\ fs' = IF r.ok THEN r.f ELSE fs
    /\ NoHandleChange
    /\ UNCHANGED <<reply, gone, durable, verfs>>

\* write.rs:43-46: getattr(file).ok(), then filesystem.write
WccWriteOp(h, offset, data) ==
    /\ Served
    /\ \E r \in {FsalWrite(fs, handle_to_path, h, offset, data)} :
         WccOp("WRITE", h, Some(FsalGetattr(fs, handle_to_path, h)), r, WriteStatus(r))

\* read.rs:42: filesystem.read
WccReadOp(h, offset, count) ==
    /\ Asked
    /\ \E r \in {FsalRead(fs, handle_to_path, h, offset, count)} :
         WccOp("READ", h, NoneOpt, r, ReadStatus(r))

\* remove.rs:38-41: getattr(dir).ok(), then filesystem.remove
WccRemoveOp(dir_handle, name) ==
    /\ Served
    /\ DirOk(dir_handle)
    /\ \E r \in {FsalRemove(fs, handle_to_path, dir_handle, name)} :
         WccOp("REMOVE", dir_handle, Some(FsalGetattr(fs, handle_to_path, dir_handle)),
               r, RemoveStatus(r))

\* The status when the backend call succeeded: WRITE and READ answer
\* NFS3ERR_IO when the getattr afterwards fails (write.rs:73-81,
\* read.rs:65-73); REMOVE goes on with NFS3_OK (remove.rs:46-53).
StatusAfter(name, post_ok) ==
    IF name \in {"WRITE", "READ"} /\ ~post_ok THEN "NFS3ERR_IO" ELSE "NFS3_OK"

\* The getattr after the operation and the reply.  pre_op_attr is packed as
\* the literal `false` (write.rs:102, remove.rs:106, and in the error
\* replies protocol/v3/nfs.rs:150); post_op_attr follows
\* when the reply carries the attributes just taken.
WccReply ==
    /\ HandlerFrame
    /\ Asked
    /\ pend.stage = "after_op"
    /\ \E after \in {FsalGetattr(fs, handle_to_path, pend.h)} :
       \E status \in {IF pend.op_ok THEN StatusAfter(pend.proc_, after.ok)
                      ELSE pend.err_status} :
         /\ reply' = Answer(pend.proc_, pend.h, status, <<>>, NoneOpt, FALSE)
         /\ pend' = [pend EXCEPT !.stage = "done",
                                 !.post_ok = after.ok,
                                 !.pre_follows = FALSE,
                                 !.post_follows = IF pend.proc_ = "REMOVE" THEN after.ok
                                                  ELSE status = "NFS3_OK"]
    /\ NoHandleChange
    /\ UNCHANGED <<fs, gone, durable, verfs>>

NextWcc ==
    \/ \E h \in NfsHandles, o \in Offsets, d \in Datas : WccWriteOp(h, o, d)
    \/ \E h \in NfsHandles, o \in Offsets, k \in Counts : WccReadOp(h, o, k)
    \/ \E h \in NfsHandles, n \in Names : WccRemoveOp(h, n)
    \/ WccReply
    \/ \E h \in NfsHandles, n \in Names : NfsCreate(h, n, "UNCHECKED")
    \/ \E h \in NfsHandles, n \in Names : NfsMkdir(h, n)
    \/ \E h \in NfsHandles, n \in Names : NfsRemove(h, n)
    \/ \E h \in NfsHandles, n \in Names : NfsRmdir(h, n)

SpecWcc == InitNfs /\ [][NextWcc]_vars

(***************************************************************************)
(* READDIR (nfs/readdir.rs, local/mod.rs:234-299) over a directory that    *)
(* does not change: fs::read_dir yields its entries in one order.          *)
(***************************************************************************)
EntryNames == {"a", "b", "c", "d"}

\* The listings fs::read_dir can yield: distinct names, in any order.
Listings ==
    {l \in UNION {[1..n -> EntryNames] : n \in 0..MaxEntries} :
        \A i, j \in 1..Len(l) : i # j => l[i] # l[j]}

\* The count a client asks for.
ReaddirCounts == 0..(MaxEntries + 1)

\* local/mod.rs:273: cookie > 0 && (index as u64) < cookie
SkipEntry_UpTo(cookie, index) == cookie > 0 /\ index <= cookie
SkipEntry(cookie, index) == cookie > 0 /\ index < cookie

\* local/mod.rs:252-298: the loop over read_dir.enumerate() from `index` on
\* (0-based), with the entries pushed so far.
RECURSIVE ReaddirLoop(_, _, _, _, _)
ReaddirLoop(listing, index, cookie, count, entries) ==
    IF index >= Len(listing) THEN [entries |-> entries, eof |-> TRUE]
    ELSE IF SkipEntry(cookie, index)
    THEN ReaddirLoop(listing, index + 1, cookie, count, entries)
    ELSE LET pushed == Append(entries, listing[index + 1]) IN
         IF Len(pushed) >= count THEN [entries |-> pushed, eof |-> FALSE]
         ELSE ReaddirLoop(listing, index + 1, cookie, count, pushed)

\* LocalFilesystem::readdir (local/mod.rs:234-299) on a directory
FsalReaddir(listing, cookie, count) == ReaddirLoop(listing, 0, cookie, count, <<>>)

\* handle_readdir (readdir.rs:46-98): the entries with their cookies,
\* cookie_counter running from args.cookie, and eof.  getattr and readdir
\* succeed on a directory that is there; args.cookieverf is not read.
HandleReaddir(listing, cookie, count) ==
    LET r == FsalReaddir(listing, cookie, count)
    IN  [status |-> "NFS3_OK",
         entries |-> [i \in 1..Len(r.entries) |->
                         [name |-> r.entries[i], cookie |-> cookie + i]],
         eof |-> r.eof]

\* readdir.rs:70: the cookieverf of every reply
ServerCookieVerf == <<0, 0, 0, 0, 0, 0, 0, 0>>

\* The cookieverf a client sends: the server's, or another one.
CookieVerfs == {ServerCookieVerf, <<0, 0, 0, 0, 0, 0, 0, 1>>}

InitReaddir ==
    /\ HmNew
    /\ ThreadsIdle
    /\ lastRet = NoHistory
    /\ issued = NoIssued
    /\ ConnUnused
    /\ NfsUnused
    /\ PmapUnused
    /\ SetattrUnused
    /\ RxUnused
    /\ \E l \in Listings, k \in ReaddirCounts :
         rd = [listing |-> l, count |-> k, cookie |-> 0, seen |-> <<>>, eof |-> FALSE,
               calls |-> 0, cookieverf |-> <<>>, status |-> "none", got |-> 0]

\* The client's next READDIR: it passes the cookie of the last entry it
\* received (0 at first) and stops once it has received eof.
ReaddirCall ==
    /\ ~rd.eof
    /\ \E verf \in CookieVerfs, res \in {HandleReaddir(rd.listing, rd.cookie, rd.count)} :
         rd' = [rd EXCEPT !.cookieverf = verf,
                          !.status = res.status,
                          !.got = Len(res.entries),
                          !.seen = @ \o res.entries,
                          !.cookie = IF Len(res.entries) = 0 THEN @
                                     ELSE res.entries[Len(res.entries)].cookie,
                          !.eof = res.eof,
                          !.calls = @ + 1]
    /\ UNCHANGED <<hmVars, connVars, nfsVars, pmVars, sa, rx>>

NextReaddir == ReaddirCall

SpecReaddir == InitReaddir /\ [][NextReaddir]_vars

(***************************************************************************)
(* Claims about the handle directory, checked under SpecHM.                *)
(***************************************************************************)
\* The handles of the directory that resolve to path p.
HandlesOf(p) == {h \in DOMAIN handle_to_path : handle_to_path[h] = p}

\* C1: a create_handle(p) that follows a completed create_handle(p), with no
\* remove_handle of a handle of p in between, returns the very handle the
\* earlier call returned, and allocates nothing: it returns from the first
\* lock scope and leaves the id counter and both maps as they were.
C1_IdempotentCreate ==
    [][\A t \in Threads :
        (pc[t] = "idle" /\ op'[t] = "create_handle" /\ IsSome(lastRet[Untag(arg'[t])]))
            => /\ pc'[t] = "done"
               /\ ret'[t] = Tagged("handle", Unwrap(lastRet[Untag(arg'[t])]))
               /\ UNCHANGED <<handle_to_path, path_to_handle, next_id>>]_vars

\* A second create_handle(p) has returned the handle of the first without
\* generating an id.
C1_Witness ==
    \E t \in Threads :
        /\ pc[t] = "done"
        /\ op[t] = "create_handle"
        /\ gen_id[t] = 0
        /\ Untag(arg[t]) \in DOMAIN path_to_handle
        /\ ret[t] = Tagged("handle", path_to_handle[Untag(arg[t])])
        /\ next_id > FirstId

\* C2: create_handle calls for one path, also when they overlap, all return
\* the same handle (as long as no handle of the path is removed), and no
\* path ever has more than one handle resolving to it.
C2_ConcurrentCreateAgree ==
    \A p \in HmPaths :
        /\ Cardinality(issued[p]) <= 1
        /\ Cardinality(HandlesOf(p)) <= 1

(***************************************************************************)
(* Claims about the connection loop, checked under SpecConn.               *)
(***************************************************************************)
\* Record k has been dealt with: a later record is complete, or the loop is
\* back at reading from the socket.
Handled(k) == k < Len(rec_log) \/ c_pc \in {"read_header", "read_fragment"}

\* C4: every complete record the loop has dealt with without closing the
\* connection got exactly one reply, and that reply starts with the first
\* four bytes (the xid) of that record; no record is skipped in silence.
C4_OneReplyPerRecord ==
    \A k \in 1..Len(rec_log) :
        Handled(k) => rec_log[k].replies = <<rec_log[k].head>>

\* C8: a connection is served serially and in order: while any byte of the
\* next record has been read, every reply so far has been written and
\* flushed and none is pending; a record is processed only when nothing of a
\* later one has been read; replies leave in the order of their records.
C8_SerialInOrder ==
    /\ next_read > 0 => (flushed = Len(sock_out) /\ response = <<>>)
    /\ c_pc \in {"process", "write", "flush"} => next_read = 0
    /\ \A i, j \in 1..Len(out_rec) : i < j => out_rec[i] < out_rec[j]

C8_Witness ==
    /\ Len(sock_out) >= 2
    /\ flushed = Len(sock_out)
    /\ next_read > 0

\* C9: every reply is written as one buffer that is a single record-marking
\* fragment: the last-fragment bit is set and the low 31 bits of the mark
\* are the length of the payload that follows it.
C9_RecordMark ==
    \A i \in 1..Len(sock_out) :
        LET e == sock_out[i] IN
        /\ Len(e) >= 4
        /\ IsLast(SubSeq(e, 1, 4))
        /\ FragmentLen(SubSeq(e, 1, 4)) = Len(e) - 4

C9_Witness ==
    /\ \E i \in 1..Len(sock_out) : sock_out[i] = <<128, 0, 0, 24>> \o NullReply(1)
    /\ \E i \in 1..Len(sock_out) : Len(sock_out[i]) > 28

(***************************************************************************)
(* Claims about the NFS procedures, checked under SpecNfs.                 *)
(***************************************************************************)
\* C3: once REMOVE or RMDIR has deleted the object at a path, the handle
\* issued for that path no longer resolves in the handle directory, and a
\* procedure that names it is answered NFS3ERR_STALE, whatever has been
\* created at the path since.
C3_RemovedHandleStale ==
    \A h \in gone :
        /\ h \notin DOMAIN handle_to_path
        /\ reply.fh = Some(h) => reply.status = "NFS3ERR_STALE"

\* C5: no procedure acts on an object outside the export root: the backend
\* operation of the last procedure did not reach the outside file, and that
\* file is as it was.
C5_InsideExportRoot ==
    /\ reply.loc # Some(OutsidePath)
    /\ fs[OutsidePath] = FileObj(OutsideData)

\* C6: a READ of the range of a WRITE that was answered NFS3_OK and then
\* committed with NFS3_OK on the same connection, with no WRITE or REMOVE of
\* the file in between, returns NFS3_OK and exactly the written bytes.
C6_CommittedWriteReadable ==
    reply.committed_range => (reply.status = "NFS3_OK" /\ reply.data = durable.data)

\* C7: all WRITE and COMMIT replies carry one and the same write verifier.
C7_SameVerifier == Cardinality(verfs) <= 1

\* C10: a procedure whose file handle does not resolve in the handle
\* directory is answered NFS3ERR_STALE.
C10_UnresolvedIsStale ==
    (reply.proc_ \notin {"none", "MNT"} /\ ~reply.resolved)
        => reply.status = "NFS3ERR_STALE"


(***************************************************************************)
(* Replies to calls the dispatchers turn down (section 4.3, 4.4).          *)
(***************************************************************************)
\* The accept_stat of an accepted reply: the word behind xid, REPLY,
\* MSG_ACCEPTED and the AUTH_NONE verifier.
AcceptStat(resp) == IF Len(resp) >= 24 THEN FromBE(resp, 20) ELSE -1

\* The call in the buffer when the record is one handle_rpc_message routes:
\* a version-2 CALL with credential and verifier for one of the three
\* registered programs; None otherwise.
RoutedCall(data) ==
    LET call == DeserializeCall(data)
    IN  IF IsSome(call) /\ IsSome(ArgsOffset(data))
           /\ Unwrap(call).prog \in {PORTMAP_PROGRAM, MOUNT_PROGRAM, NFS_PROGRAM}
        THEN call ELSE NoneOpt

\* The one version each program serves.
SupportedVersion(prog) ==
    IF prog = PORTMAP_PROGRAM THEN PORTMAP_V2
    ELSE IF prog = MOUNT_PROGRAM THEN MOUNT_V3 ELSE NFS_V3

\* The procedures each program routes to a handler.
HasHandler(call) ==
    IF call.prog = PORTMAP_PROGRAM THEN call.proc_ \in {0, 1, 2, 3}
    ELSE IF call.prog = MOUNT_PROGRAM THEN call.proc_ \in {0, 1, 3}
    ELSE call.proc_ \in 0..21

\* C11: the reply to a CALL for a registered program with a version other
\* than the supported one is an accepted reply with accept_stat
\* PROG_MISMATCH (2) whose low and high both are the supported version.
C11_VersionMismatchReply ==
    LET call == RoutedCall(buffer)
    IN  (c_pc = "write" /\ IsSome(call)
           /\ Unwrap(call).vers # SupportedVersion(Unwrap(call).prog))
        => /\ AcceptStat(response) = 2
           /\ Len(response) = 32
           /\ FromBE(response, 24) = SupportedVersion(Unwrap(call).prog)
           /\ FromBE(response, 28) = SupportedVersion(Unwrap(call).prog)

\* C12: the reply to a CALL for a supported program and version whose
\* procedure has no handler is an accepted reply with accept_stat
\* PROC_UNAVAIL (3).
C12_ProcUnavailReply ==
    LET call == RoutedCall(buffer)
    IN  (c_pc = "write" /\ IsSome(call)
           /\ Unwrap(call).vers = SupportedVersion(Unwrap(call).prog)
           /\ ~HasHandler(Unwrap(call)))
        => AcceptStat(response) = 3

\* C13: a call routed to a handler whose arguments do not decode is answered
\* with an accepted reply with accept_stat GARBAGE_ARGS (4) and the xid of
\* the call: the loop goes on to write that reply, it does not close.
C13_GarbageArgsReply ==
    LET call == RoutedCall(buffer)
    IN  (c_pc = "write" /\ IsSome(call)
           /\ Unwrap(call).vers = SupportedVersion(Unwrap(call).prog)
           /\ HasHandler(Unwrap(call)) /\ Unwrap(call).proc_ # 0
           /\ ArgsData(buffer, Unwrap(ArgsOffset(buffer))) = <<>>)
        => /\ AcceptStat(response) = 4
           /\ SubSeq(response, 1, 4) = U32BE(Unwrap(call).xid)

\* C14: a record mark that announces more than the per-record cap of 16 MiB
\* is turned down at once: the loop never sets out to read such a fragment
\* body, and the buffer never holds more than the cap.
C14_FragmentCap ==
    /\ c_pc = "read_fragment" => hdr.len <= 16777216
    /\ Len(buffer) <= 16777216


\* C15: for every dirpath MNT answers MNT3_OK with the root handle of the
\* filesystem, which resolves in the handle directory, and a GETATTR that
\* presents the handle MNT returned succeeds.
C15_MntRootHandle ==
    /\ reply.proc_ = "MNT"
         => /\ reply.status = "MNT3_OK"
            /\ reply.fh = Some(RootHandle)
            /\ reply.resolved
    /\ (reply.proc_ = "GETATTR" /\ Unwrap(reply.fh) \in MntHandles)
         => reply.status = "NFS3_OK"


\* The name is taken in the directory of the handle: the entry itself is
\* there (a file, a directory or a symbolic link).
NameExists(dir_handle, name) ==
    /\ Resolves(dir_handle)
    /\ LET e == Entry(fs, FullPath(handle_to_path, dir_handle, name))
       IN  IsSome(e) /\ fs[Unwrap(e)].kind # "none"

\* C16: CREATE with how = GUARDED on a name that exists in the directory
\* returns NFS3ERR_EXIST and leaves every object as it was.
C16_GuardedCreateExists ==
    [][\A h \in NfsHandles, n \in Names :
          (NameExists(h, n) /\ NfsCreate(h, n, "GUARDED"))
              => (reply'.status = "NFS3ERR_EXIST" /\ fs' = fs)]_vars

\* C17: CREATE with how = EXCLUSIVE on the name of a file that exists either
\* is the retransmission of the call that created the file (same verifier)
\* and then returns NFS3_OK without altering the file, data written since
\* included, or carries another verifier and returns NFS3ERR_EXIST.
C17_ExclusiveCreateExists ==
    [][\A h \in NfsHandles, n \in Names :
          (/\ NameExists(h, n)
           /\ fs[Unwrap(Entry(fs, FullPath(handle_to_path, h, n)))].kind = "file"
           /\ NfsCreate(h, n, "EXCLUSIVE"))
              => \/ reply'.status = "NFS3_OK" /\ fs' = fs
                 \/ reply'.status = "NFS3ERR_EXIST"]_vars


\* C18: when the getattr a mutating procedure takes before its backend call
\* succeeded, the wcc_data of the reply has pre_op_attr TRUE; pre_op_attr is
\* FALSE only when that getattr failed.
C18_PreOpAttr ==
    (pend.stage = "done" /\ pend.proc_ \in {"WRITE", "REMOVE"})
        => (pend.pre_follows <=> pend.pre_ok)

\* C19: when the backend call of a procedure succeeded and the getattr after
\* it fails, the reply status is NFS3_OK and the attribute field of the reply
\* is FALSE.
C19_PostAttrFailureKeepsOk ==
    (pend.stage = "done" /\ pend.op_ok /\ ~pend.post_ok)
        => (reply.status = "NFS3_OK" /\ ~pend.post_follows)


\* C20: reading an unchanged directory from cookie 0, passing each time the
\* cookie of the last entry received, yields the entries in the one order of
\* the listing, each once, with strictly increasing cookies; every call that
\* does not end with eof delivers an entry, so eof comes within as many
\* calls as there are entries plus one; at eof every entry has been
\* received.  This holds for every count.
C20_ReaddirIteration ==
    (rd.calls > 0) =>
        /\ Len(rd.seen) <= Len(rd.listing)
        /\ \A i \in 1..Len(rd.seen) : rd.seen[i].name = rd.listing[i]
        /\ \A i, j \in 1..Len(rd.seen) : i < j => rd.seen[i].cookie < rd.seen[j].cookie
        /\ ~rd.eof => Len(rd.seen) >= rd.calls
        /\ rd.calls <= Len(rd.listing) + 1
        /\ rd.eof => Len(rd.seen) = Len(rd.listing)

\* A directory of three entries has been read to eof in more than one call.
C20_Witness ==
    /\ rd.eof
    /\ rd.calls >= 2
    /\ Len(rd.listing) = 3
    /\ Len(rd.seen) = 3


\* C21: a READDIR whose cookieverf differs from the server's cookieverf is
\* answered NFS3ERR_BAD_COOKIE and carries no entries.
C21_BadCookieVerf ==
    (rd.calls > 0 /\ rd.cookieverf # ServerCookieVerf)
        => (rd.status = "NFS3ERR_BAD_COOKIE" /\ rd.got = 0)


\* C22: after a successful RENAME to another path, a handle that was issued
\* for the source path no longer resolves or resolves to another path: it
\* does not keep resolving to the old path.
C22_RenameRetargets ==
    [][\A h1 \in NfsHandles, h2 \in NfsHandles, n1 \in Names, n2 \in Names :
          (/\ Resolves(h1) /\ Resolves(h2)
           /\ FullPath(handle_to_path, h1, n1) # FullPath(handle_to_path, h2, n2)
           /\ NfsRename(h1, n1, h2, n2)
           /\ reply'.status = "NFS3_OK")
          => \A h \in DOMAIN handle_to_path :
                handle_to_path[h] = FullPath(handle_to_path, h1, n1)
                    => \/ h \notin DOMAIN handle_to_path'
                       \/ handle_to_path'[h] # FullPath(handle_to_path, h1, n1)]_vars


\* C23: a lookup, create, remove, mkdir, rmdir or rename with a name that
\* contains '/' or ".." is answered NFS3ERR_INVAL and changes neither the
\* file system nor the handle directory.
C23_BadNameInval ==
    [][\A h \in NfsHandles, n \in BadNames :
          (/\ Resolves(h)
           /\ \/ NfsLookup(h, n)
              \/ NfsCreate(h, n, "UNCHECKED")
              \/ NfsRemove(h, n)
              \/ NfsMkdir(h, n)
              \/ NfsRmdir(h, n)
              \/ \E h2 \in NfsHandles, n2 \in Names :
                    Resolves(h2) /\ (NfsRename(h, n, h2, n2) \/ NfsRename(h2, n2, h, n)))
          => /\ reply'.status = "NFS3ERR_INVAL"
             /\ fs' = fs
             /\ UNCHANGED <<handle_to_path, path_to_handle, next_id>>]_vars


(***************************************************************************)
(* The portmapper registry (src/src/portmap/registry.rs).                  *)
(***************************************************************************)
MaxPmapOps == 4

\* The keys the callers register: they differ in the program or in the
\* protocol (6 = TCP, 17 = UDP).
PmapKeys == {<<100003, 3, 6>>, <<100003, 3, 17>>, <<100005, 3, 6>>}

PmapPorts == {0, 2049}

\* The `mapping` arguments of the calls.
PmapArgs ==
    {[prog |-> k[1], vers |-> k[2], prot |-> k[3], port |-> p] : k \in PmapKeys, p \in PmapPorts}

\* registry.rs:35, 54, 74: the key of a mapping
ServiceKey(map) == <<map.prog, map.vers, map.prot>>

\* registry.rs:34-48: insert or overwrite; always true
RegistrySet(m, map) ==
    [mappings |-> [k \in (DOMAIN m) \cup {ServiceKey(map)} |->
                      IF k = ServiceKey(map) THEN map.port ELSE m[k]],
     ret |-> TRUE]

\* An unset that drops every mapping of the program.
RegistryUnset_WholeProgram(m, map) ==
    [mappings |-> [k \in {x \in DOMAIN m : x[1] # map.prog} |-> m[k]],
     ret |-> ServiceKey(map) \in DOMAIN m]

\* registry.rs:53-69: remove the key; true when it was there
RegistryUnset(m, map) ==
    [mappings |-> [k \in (DOMAIN m) \ {ServiceKey(map)} |-> m[k]],
     ret |-> ServiceKey(map) \in DOMAIN m]

\* registry.rs:74-90: the port of the key, 0 when there is none
RegistryGetport(m, map) ==
    IF ServiceKey(map) \in DOMAIN m THEN m[ServiceKey(map)] ELSE 0

\* registry.rs:93-105: every mapping of the registry
RegistryDump(m) ==
    {[prog |-> k[1], vers |-> k[2], prot |-> k[3], port |-> m[k]] : k \in DOMAIN m}

PmapFrame == UNCHANGED <<hmVars, connVars, nfsVars, rd, sa, rx>>

\* set.rs:20-49: PMAPPROC_SET
PortmapSet(map) ==
    /\ Len(pm.log) < MaxPmapOps
    /\ \E r \in {RegistrySet(mappings, map)} :
         /\ mappings' = r.mappings
         /\ pm' = [log |-> Append(pm.log, [op |-> "SET", key |-> ServiceKey(map), port |-> map.port]),
                   last |-> [op |-> "SET", key |-> ServiceKey(map), ok |-> r.ret, port |-> 0],
                   before |-> mappings]
    /\ PmapFrame

\* unset.rs:20-49: PMAPPROC_UNSET
PortmapUnset(map) ==
    /\ Len(pm.log) < MaxPmapOps
    /\ \E r \in {RegistryUnset(mappings, map)} :
         /\ mappings' = r.mappings
         /\ pm' = [log |-> Append(pm.log, [op |-> "UNSET", key |-> ServiceKey(map), port |-> 0]),
                   last |-> [op |-> "UNSET", key |-> ServiceKey(map), ok |-> r.ret, port |-> 0],
                   before |-> mappings]
    /\ PmapFrame

\* getport.rs:20-51: PMAPPROC_GETPORT
PortmapGetport(map) ==
    /\ pm' = [pm EXCEPT !.last = [op |-> "GETPORT", key |-> ServiceKey(map), ok |-> FALSE,
                                  port |-> RegistryGetport(mappings, map)],
                        !.before = mappings]
    /\ UNCHANGED mappings
    /\ PmapFrame

InitPmap ==
    /\ HmNew
    /\ ThreadsIdle
    /\ lastRet = NoHistory
    /\ issued = NoIssued
    /\ ConnUnused
    /\ NfsUnused
    /\ ReaddirUnused
    /\ PmapUnused
    /\ SetattrUnused
    /\ RxUnused

NextPmap ==
    \/ \E map \in PmapArgs : PortmapSet(map)
    \/ \E map \in PmapArgs : PortmapUnset(map)
    \/ \E map \in PmapArgs : PortmapGetport(map)

SpecPmap == InitPmap /\ [][NextPmap]_vars

\* The last SET or UNSET on key k in the log, 0 when there is none.
RECURSIVE LastOn(_, _)
LastOn(log, k) ==
    IF Len(log) = 0 THEN 0
    ELSE IF log[Len(log)].key = k THEN Len(log)
    ELSE LastOn(SubSeq(log, 1, Len(log) - 1), k)

\* Key k is registered after the calls of the log: the last call on it is a SET.
RegisteredAfter(log, k) == LastOn(log, k) # 0 /\ log[LastOn(log, k)].op = "SET"

\* The port GETPORT owes after the calls of the log.
PortAfter(log, k) == IF RegisteredAfter(log, k) THEN log[LastOn(log, k)].port ELSE 0

\* C24: the registry is a partial map from (program, version, protocol) to
\* port.  After any SET and UNSET calls GETPORT on a key gives the port of
\* the latest SET on it that no later UNSET removed, 0 otherwise; SET returns
\* true and overwrites; UNSET returns true exactly when the key was
\* registered, and changes no other key.
C24_RegistryPartialMap ==
    /\ \A map \in PmapArgs :
         RegistryGetport(mappings, map) = PortAfter(pm.log, ServiceKey(map))
    /\ DOMAIN mappings = {k \in PmapKeys : RegisteredAfter(pm.log, k)}
    /\ pm.last.op = "GETPORT" => pm.last.port = PortAfter(pm.log, pm.last.key)
    /\ pm.last.op = "SET" => pm.last.ok
    /\ pm.last.op = "UNSET" =>
         /\ pm.last.ok = RegisteredAfter(SubSeq(pm.log, 1, Len(pm.log) - 1), pm.last.key)
         /\ pm.last.key \notin DOMAIN mappings
    /\ pm.last.op \in {"SET", "UNSET"} =>
         \A k \in PmapKeys \ {pm.last.key} :
             /\ (k \in DOMAIN mappings) = (k \in DOMAIN pm.before)
             /\ k \in DOMAIN mappings => mappings[k] = pm.before[k]

\* A key was registered, overwritten with another port, asked for, and a
\* second key of the same program was unregistered while the first stayed.
C24_Witness ==
    /\ Len(pm.log) = 4
    /\ pm.log[1].op = "SET" /\ pm.log[2].op = "SET" /\ pm.log[1].key = pm.log[2].key
    /\ pm.log[1].port # pm.log[2].port
    /\ pm.log[3].op = "SET" /\ pm.log[3].key # pm.log[1].key /\ pm.log[3].key[1] = pm.log[1].key[1]
    /\ pm.last.op = "UNSET" /\ pm.last.ok /\ pm.last.key = pm.log[3].key
    /\ pm.log[1].key \in DOMAIN mappings


\* C25: a Portmap DUMP call (procedure 4) is answered with an accepted
\* SUCCESS reply (accept_stat 0) that carries the xid of the call and the
\* list of the registry's mappings.
C25_DumpAnswered ==
    LET call == RoutedCall(buffer)
    IN  (c_pc = "write" /\ IsSome(call)
           /\ Unwrap(call).prog = PORTMAP_PROGRAM
           /\ Unwrap(call).vers = PORTMAP_V2
           /\ Unwrap(call).proc_ = 4)
        => /\ AcceptStat(response) = 0
           /\ SubSeq(response, 1, 4) = U32BE(Unwrap(call).xid)


\* A client that creates files and links, writes and reads.
NextRead ==
    \/ \E h \in NfsHandles, n \in Names : NfsCreate(h, n, "UNCHECKED")
    \/ \E h \in NfsHandles, n \in Names, t \in Targets : NfsSymlink(h, n, t)
    \/ \E c \in Conns, h \in NfsHandles, o \in Offsets, d \in Datas : NfsWrite(c, h, o, d)
    \/ \E h \in NfsHandles, o \in Offsets, k \in Counts : NfsRead(h, o, k)

SpecRead == InitNfs /\ [][NextRead]_vars

MaxSetattrs == 2
MaxDecodeOps == 3

\* Times as <<seconds, nseconds>>, the second a later one in the same second.
Times == {<<100, 0>>, <<100, 5>>, <<101, 0>>}

\* The times not before t: a change made within the granularity of the
\* clock leaves ctime as it is.
NotBefore(t) == {u \in Times : u[1] > t[1] \/ (u[1] = t[1] /\ u[2] >= t[2])}

Sizes == {0, 2}
Modes == {384, 420}

\* new_attributes: size and mode, each set or not (None)
SetSizes == {NoneOpt} \cup {Some(n) : n \in Sizes}
SetModes == {NoneOpt} \cup {Some(m) : m \in Modes}
Uids == {1000}
SetUids == {NoneOpt} \cup {Some(u) : u \in Uids}

\* A guard that looks at the seconds only.
GuardFails_SecondsOnly(before, guard_ctime) == before.ctime[1] # guard_ctime[1]

\* setattr.rs:49-50: the guard's ctime differs from the ctime before
GuardFails(before, guard_ctime) ==
    before.ctime[1] # guard_ctime[1] \/ before.ctime[2] # guard_ctime[2]

\* setattr_size (local/mod.rs:331-345): open for writing, set_len
SetattrSize(file, size, now) ==
    IF ~file.exists
    THEN [ok |-> FALSE, msg |-> <<"Failed", "to", "open", "file", "for", "setattr">>,
          kind |-> "NotFound", file |-> file]
    ELSE IF file.isdir
    THEN [ok |-> FALSE, msg |-> <<"Failed", "to", "open", "file", "for", "setattr">>,
          kind |-> "IsADirectory", file |-> file]
    ELSE [ok |-> TRUE, msg |-> <<>>, kind |-> "none",
          file |-> [file EXCEPT !.size = size, !.ctime = now]]

\* setattr_mode (local/mod.rs:347-357): fs::set_permissions
SetattrMode(file, mode, now) ==
    IF ~file.exists
    THEN [ok |-> FALSE, msg |-> <<"Failed", "to", "set", "permissions">>,
          kind |-> "NotFound", file |-> file]
    ELSE IF ~file.owned
    THEN [ok |-> FALSE, msg |-> <<"Failed", "to", "set", "permissions">>,
          kind |-> "PermissionDenied", file |-> file]
    ELSE [ok |-> TRUE, msg |-> <<>>, kind |-> "none",
          file |-> [file EXCEPT !.mode = mode, !.ctime = now]]

\* setattr_owner (local/mod.rs:359-368): resolves the handle, logs "not
\* implemented" and returns Ok; the file is left as it was.
SetattrOwner(file, uid) ==
    [ok |-> TRUE, msg |-> <<>>, kind |-> "none", file |-> file]

\* setattr.rs:68-76 and 89-95: the status of a failed setattr_size or setattr_mode
SetattrStatus(e, size_step) ==
    IF Contains(e.msg, <<"not", "found">>) THEN "NFS3ERR_STALE"
    ELSE IF Contains(e.msg, <<"Permission", "denied">>) THEN "NFS3ERR_ACCES"
    ELSE IF size_step /\ Contains(e.msg, <<"Read-only">>) THEN "NFS3ERR_ROFS"
    ELSE "NFS3ERR_IO"

\* handle_setattr (setattr.rs:25-166): the status and the file afterwards.
\* uid and gid are logged only (local/mod.rs:359-368); times are skipped.
HandleSetattr(file, check, guard_ctime, size, mode, uid, now) ==
    IF check /\ file.exists /\ GuardFails(file, guard_ctime)
    THEN [status |-> "NFS3ERR_NOT_SYNC", file |-> file]
    ELSE LET r1 == IF IsSome(size) THEN SetattrSize(file, Unwrap(size), now)
                   ELSE [ok |-> TRUE, msg |-> <<>>, kind |-> "none", file |-> file]
         IN  IF ~r1.ok THEN [status |-> SetattrStatus(r1, TRUE), file |-> r1.file]
             ELSE LET r2 == IF IsSome(mode) THEN SetattrMode(r1.file, Unwrap(mode), now)
                            ELSE [ok |-> TRUE, msg |-> <<>>, kind |-> "none", file |-> r1.file]
                  IN  IF ~r2.ok THEN [status |-> SetattrStatus(r2, FALSE), file |-> r2.file]
                      ELSE LET r3 == IF IsSome(uid) THEN SetattrOwner(r2.file, Unwrap(uid))
                                     ELSE [ok |-> TRUE, msg |-> <<>>, kind |-> "none",
                                           file |-> r2.file]
                           IN  IF ~r3.ok
                               THEN [status |-> SetattrStatus(r3, FALSE), file |-> r3.file]
                               ELSE IF ~r3.file.exists
                               THEN [status |-> "NFS3ERR_IO", file |-> r3.file]
                               ELSE [status |-> "NFS3_OK", file |-> r3.file]

SetattrFrame == UNCHANGED <<hmVars, connVars, nfsVars, rd, pmVars, rx>>

InitSetattr ==
    /\ HmNew
    /\ ThreadsIdle
    /\ lastRet = NoHistory
    /\ issued = NoIssued
    /\ ConnUnused
    /\ NfsUnused
    /\ ReaddirUnused
    /\ PmapUnused
    /\ RxUnused
    /\ \E t \in Times, n \in Sizes, m \in Modes, d \in BOOLEAN, o \in BOOLEAN :
         sa = [file |-> [FileMeta(TRUE, IF d THEN 0 ELSE n, m, t)
                            EXCEPT !.isdir = d, !.owned = o],
               last |-> NoSetattr, calls |-> 0]

\* One SETATTR call with a guard (checked or not) and new attributes.
NfsSetattr(check, guard_ctime, size, mode, uid) ==
    /\ sa.calls < MaxSetattrs
    /\ \E now \in NotBefore(sa.file.ctime) :
       \E r \in {HandleSetattr(sa.file, check, guard_ctime, size, mode, uid, now)} :
         sa' = [file |-> r.file,
                last |-> [status |-> r.status, check |-> check, guard |-> guard_ctime,
                          req |-> [size |-> size, mode |-> mode, uid |-> uid],
                          before |-> sa.file, after |-> r.file],
                calls |-> sa.calls + 1]
    /\ SetattrFrame

\* The file is removed behind the handle.
FileRemoved ==
    /\ sa.file.exists
    /\ sa' = [sa EXCEPT !.file = FileMeta(FALSE, 0, 0, <<0, 0>>)]
    /\ SetattrFrame

NextSetattr ==
    \/ \E check \in BOOLEAN, g \in Times, size \in SetSizes, mode \in SetModes,
          uid \in SetUids :
          NfsSetattr(check, g, size, mode, uid)
    \/ FileRemoved

SpecSetattr == InitSetattr /\ [][NextSetattr]_vars

\* C27: a SETATTR with guard.check set and a guard ctime that differs from
\* the ctime of the object is answered NFS3ERR_NOT_SYNC and none of the
\* requested changes is applied.
C27_GuardNotSync ==
    (/\ sa.last.status # "none"
     /\ sa.last.check
     /\ sa.last.before.exists
     /\ sa.last.guard # sa.last.before.ctime)
    => /\ sa.last.status = "NFS3ERR_NOT_SYNC"
       /\ sa.last.after = sa.last.before

\* An earlier SETATTR changed the file; the guard of the next one holds the
\* ctime from before that change, a time of the same second.
C27_Witness ==
    /\ sa.calls >= 2
    /\ sa.last.check
    /\ sa.last.before.exists
    /\ sa.last.guard[1] = sa.last.before.ctime[1]
    /\ sa.last.guard[2] # sa.last.before.ctime[2]
    /\ sa.last.status = "NFS3ERR_NOT_SYNC"


(***************************************************************************)
(* READDIRPLUS (src/src/nfs/readdirplus.rs) over the tree of the export.   *)
(***************************************************************************)
\* The names fs::read_dir finds in the directory at location d.
ChildNames(f, d) == {l[Len(l)] : l \in Children(f, d)}

\* The orders fs::read_dir can yield them in.
DirListings(f, d) ==
    {l \in UNION {[1..n -> Names] : n \in 0..Cardinality(Names)} :
        /\ Len(l) = Cardinality(ChildNames(f, d))
        /\ {l[i] : i \in 1..Len(l)} = ChildNames(f, d)}

PlusCookies == {0, 1}
PlusCounts == {1, 3}

\* HandleManager::create_handle (handle.rs:41-81) as one call on the
\* directory hm = [h2p, p2h, next_id]: the directory afterwards and the handle.
CreateHandle(hm, path) ==
    LET old == PathLookup(hm.p2h, path) IN
    IF IsSome(old) THEN [hm |-> hm, handle |-> Unwrap(old)]
    ELSE LET h == MakeHandle(hm.next_id, path) IN
         [hm |-> [h2p |-> MapInsert(hm.h2p, h, path),
                  p2h |-> MapInsert(hm.p2h, path, h),
                  next_id |-> hm.next_id + 1],
          handle |-> h]

\* An entry that always claims attributes and a handle.
EntryPlus_Always(lookup_ok, getattr_ok) ==
    [attributes_follow |-> TRUE, handle_follows |-> TRUE]

\* readdirplus.rs:111-139: post_op_attr and post_op_fh3 of one entry
EntryPlus(lookup_ok, getattr_ok) ==
    [attributes_follow |-> lookup_ok /\ getattr_ok,
     handle_follows |-> lookup_ok /\ getattr_ok]

\* readdirplus.rs:92-140: the loop over the entries, from the i-th on
RECURSIVE PlusEntries(_, _, _, _, _, _, _)
PlusEntries(f, hm, dir_handle, names, i, cookie, acc) ==
    IF i > Len(names) THEN [hm |-> hm, entries |-> acc]
    ELSE LET r == FsalLookup(f, hm.h2p, dir_handle, names[i])
             c == IF r.ok THEN CreateHandle(hm, Unwrap(r.path))
                  ELSE [hm |-> hm, handle |-> BogusHandle]
             g == r.ok /\ FsalGetattr(f, c.hm.h2p, c.handle).ok
             e == EntryPlus(r.ok, g)
         IN  PlusEntries(f, c.hm, dir_handle, names, i + 1, cookie,
                         Append(acc, [name |-> names[i], cookie |-> cookie + i,
                                      attributes_follow |-> e.attributes_follow,
                                      handle_follows |-> e.handle_follows,
                                      handle |-> c.handle]))

\* handle_readdirplus (readdirplus.rs:30-157); `listing` is what
\* fs::read_dir yields.  readdir (local/mod.rs:234-243) fails on what is
\* not a directory.
HandleReaddirplus(f, hm, dir_handle, listing, cookie, dircount) ==
    LET a == FsalGetattr(f, hm.h2p, dir_handle) IN
    IF ~a.ok \/ f[Unwrap(a.loc)].kind # "dir"
    THEN [status |-> "NFS3ERR_IO", entries |-> <<>>, eof |-> FALSE, hm |-> hm]
    ELSE LET r == FsalReaddir(listing, cookie, dircount)
             p == PlusEntries(f, hm, dir_handle, r.entries, 1, cookie, <<>>)
         IN  [status |-> "NFS3_OK", entries |-> p.entries, eof |-> r.eof, hm |-> p.hm]

\* The directory a handle is read as; None when it names none.
DirOf(f, hmap, h) ==
    LET a == FsalGetattr(f, hmap, h) IN
    IF a.ok /\ f[Unwrap(a.loc)].kind = "dir" THEN a.loc ELSE NoneOpt

NfsReaddirplus(dir_handle, cookie, dircount) ==
    /\ NfsFrame
    /\ Served
    /\ DirOk(dir_handle)
    /\ \E listing \in (IF IsSome(DirOf(fs, handle_to_path, dir_handle))
                       THEN DirListings(fs, Unwrap(DirOf(fs, handle_to_path, dir_handle)))
                       ELSE {<<>>}) :
       \E r \in {HandleReaddirplus(fs, [h2p |-> handle_to_path, p2h |-> path_to_handle,
                                        next_id |-> next_id],
                                   dir_handle, listing, cookie, dircount)} :
         /\ r.hm.next_id <= MaxId + 1
         /\ reply' = [Answer("READDIRPLUS", dir_handle, r.status, <<>>, NoneOpt, FALSE)
                        EXCEPT !.entries = r.entries, !.eof = r.eof]
         /\ handle_to_path' = r.hm.h2p
         /\ path_to_handle' = r.hm.p2h
         /\ next_id' = r.hm.next_id
    /\ UNCHANGED <<fs, gone, durable, verfs>>

NextPlus ==
    \/ \E h \in NfsHandles, n \in Names : NfsCreate(h, n, "UNCHECKED")
    \/ \E h \in NfsHandles, n \in Names : NfsMkdir(h, n)
    \/ \E h \in NfsHandles, n \in Names, t \in Targets : NfsSymlink(h, n, t)
    \/ \E h \in NfsHandles, n \in Names : NfsRemove(h, n)
    \/ \E h \in NfsHandles, c \in PlusCookies, k \in PlusCounts : NfsReaddirplus(h, c, k)

SpecPlus == InitNfs /\ [][NextPlus]_vars

C29_RemoveAbsent ==
    [][\A h \in NfsHandles, n \in Names \cup AbsentNames :
          (/\ IsSome(DirOf(fs, handle_to_path, h))
           /\ Unwrap(DirOf(fs, handle_to_path, h)) # OutsidePath
           /\ n \notin ChildNames(fs, Unwrap(DirOf(fs, handle_to_path, h)))
           /\ NfsRemove(h, n))
          => (reply'.status = "NFS3ERR_NOENT" /\ fs' = fs)]_vars


\* C30: RMDIR of a directory that has entries is answered NFS3ERR_NOTEMPTY
\* and removes nothing.
C30_RmdirNotEmpty ==
    [][\A h \in NfsHandles, n \in Names :
          (/\ NameExists(h, n)
           /\ LET e == Unwrap(Entry(fs, FullPath(handle_to_path, h, n)))
              IN  fs[e].kind = "dir" /\ Children(fs, e) # {}
           /\ NfsRmdir(h, n))
          => (reply'.status = "NFS3ERR_NOTEMPTY" /\ fs' = fs)]_vars


(***************************************************************************)
(* MOUNT UMNT (src/src/mount/umnt.rs).                                     *)
(***************************************************************************)
\* The arguments of a UMNT call once deserialize_dirpath has run: a dirpath,
\* or None when they do not decode.
UmntArgs == {NoneOpt} \cup {Some(d) : d \in Dirpaths}

UmntXids == {1, 2}

\* A UMNT that turns down arguments it cannot decode.
UmntReply_Strict(xid, args) ==
    IF ~IsSome(args) THEN ProgUnavailReply(xid) ELSE NullReply(xid)

\* umnt.rs:27-46: the null reply on both arms
UmntReply(xid, args) ==
    IF ~IsSome(args) THEN NullReply(xid) ELSE NullReply(xid)

\* umnt::handle (umnt.rs:20-47): nothing but the reply is produced.
MountUmnt(xid, args) ==
    /\ NfsFrame
    /\ Asked
    /\ reply' = Answer("UMNT", BogusHandle, "none", UmntReply(xid, args), NoneOpt, FALSE)
    /\ NoHandleChange
    /\ UNCHANGED <<fs, gone, durable, verfs>>

NextMount ==
    \/ \E d \in Dirpaths : MountMnt(d)
    \/ \E xid \in UmntXids, args \in UmntArgs : MountUmnt(xid, args)
    \/ \E h \in NfsHandles, n \in Names : NfsCreate(h, n, "UNCHECKED")
    \/ \E h \in NfsHandles, n \in Names : NfsMkdir(h, n)

SpecMount == InitNfs /\ [][NextMount]_vars

\* C31: UMNT is answered with an accepted SUCCESS reply that carries the xid
\* of the call and no result, for every dirpath and for arguments that do
\* not decode, after a MNT or without one, and it changes neither the tree
\* nor the handle directory nor the registry.
C31_UmntIdempotent ==
    [][\A xid \in UmntXids, args \in UmntArgs :
          MountUmnt(xid, args)
          => /\ AcceptStat(reply'.data) = 0
             /\ Len(reply'.data) = 24
             /\ SubSeq(reply'.data, 1, 4) = U32BE(xid)
             /\ UNCHANGED <<fs, handle_to_path, path_to_handle, next_id, mappings>>]_vars

\* A UMNT answered after the export has been changed: the reply is the
\* 24-byte accepted SUCCESS reply.
C31_Witness ==
    /\ reply.proc_ = "UMNT"
    /\ nops > 0
    /\ Len(reply.data) = 24
    /\ AcceptStat(reply.data) = 0


\* C32: once a record whose last-fragment bit is set has been handled, the
\* accumulator is empty when the loop waits for the first fragment of the
\* next record, whether a reply was sent or not.
C32_AccumulatorReset ==
    (c_pc = "read_header" /\ next_read = 0) => buffer = <<>>


\* The ids in use: of the handles either map holds and of the handles the
\* threads inside create_handle have generated and not yet stored.
IdsInUse ==
    {h.id : h \in DOMAIN handle_to_path}
        \cup {path_to_handle[p].id : p \in DOMAIN path_to_handle}
        \cup {gen_id[t] : t \in {u \in Threads : pc[u] \in {"c_lock_h", "c_lock_p", "c_insert"}}}

\* C33: the id counter starts at 1 and never decreases; an id that
\* create_handle generates is greater than every id generated before (all of
\* which lie below the counter), with threads allocating at the same time
\* and after removals; two paths never share a handle.
C33_IdsIncrease ==
    /\ [](/\ next_id >= 1
          /\ \A i \in IdsInUse : i >= 1 /\ i < next_id
          /\ \A p, q \in DOMAIN path_to_handle :
               p # q => path_to_handle[p] # path_to_handle[q]
          /\ \A t, u \in Threads :
               (t # u /\ pc[t] \in {"c_lock_h", "c_lock_p", "c_insert"}
                      /\ pc[u] \in {"c_lock_h", "c_lock_p", "c_insert"})
                   => gen_id[t] # gen_id[u])
    /\ [][/\ next_id' >= next_id
          /\ \A t \in Threads :
               (pc[t] = "c_id" /\ pc'[t] = "c_lock_h")
                   => /\ gen_id'[t] >= next_id
                      /\ gen_id'[t] < next_id'
                      /\ \A i \in IdsInUse : gen_id'[t] > i]_vars

\* Three ids have been generated, the third is mapped, and fewer than three
\* handles are mapped: an earlier one was removed or replaced.
C33_Witness ==
    /\ next_id = 4
    /\ \E h \in DOMAIN handle_to_path : h.id = 3
    /\ Cardinality(DOMAIN handle_to_path) < 3
    /\ \E t \in Threads : op[t] = "remove_handle"

(***************************************************************************)
(* SETATTR step by step (src/src/nfs/setattr.rs:60-126).                   *)
(***************************************************************************)
\* The size step fails on a directory, the mode step on a file of another owner.
SizeStepFails(file, req) == IsSome(req.size) /\ file.isdir
ModeStepFails(file, req) == IsSome(req.mode) /\ ~file.owned

\* C34: SETATTR applies the requested changes in the order size, mode, owner;
\* when a step fails the reply carries an error status, the changes of the
\* earlier steps stay and no later change is made; when no step fails the
\* reply is NFS3_OK and every requested change (size, mode, uid) is in effect.
C34_SetattrSteps ==
    (/\ sa.last.status \notin {"none", "NFS3ERR_NOT_SYNC"}
     /\ sa.last.before.exists)
    => LET b == sa.last.before
           a == sa.last.after
           q == sa.last.req
       IN  IF SizeStepFails(b, q)
           THEN /\ sa.last.status # "NFS3_OK"
                /\ a = b
           ELSE /\ IsSome(q.size) => a.size = Unwrap(q.size)
                /\ IF ModeStepFails(b, q)
                   THEN /\ sa.last.status # "NFS3_OK"
                        /\ a.mode = b.mode
                        /\ a.uid = b.uid
                   ELSE /\ sa.last.status = "NFS3_OK"
                        /\ IsSome(q.mode) => a.mode = Unwrap(q.mode)
                        /\ IsSome(q.uid) => a.uid = Unwrap(q.uid)

\* A SETATTR asking for a new owner only is answered NFS3_OK and the owner of
\* the file is the old one.
C34_OwnerNotApplied ==
    /\ sa.last.status = "NFS3_OK"
    /\ sa.last.req = [size |-> NoneOpt, mode |-> NoneOpt, uid |-> Some(1000)]
    /\ sa.last.after.uid = 0

\* The order and the early return do hold: a size change stays when the mode
\* step after it fails.
C34_SizeKeptModeFailed ==
    /\ sa.last.status = "NFS3ERR_IO"
    /\ IsSome(sa.last.req.size) /\ IsSome(sa.last.req.mode)
    /\ ~sa.last.before.isdir /\ ~sa.last.before.owned
    /\ sa.last.before.size # sa.last.after.size
    /\ sa.last.after.mode = sa.last.before.mode

(***************************************************************************)
(* Argument decoding in front of the handlers.  The arguments of a call    *)
(* are the sequence of XDR items the client sent; a truncated call is a    *)
(* proper prefix of that sequence.                                          *)
(***************************************************************************)
\* The prefixes of an argument sequence that are shorter than the sequence.
Truncations(items) == {SubSeq(items, 1, k) : k \in 0..(Len(items) - 1)}

\* stable_how values a client may send: UNSTABLE and one outside the enum.
Stables == {0, 7}

\* WRITE3args: file, offset, count, stable, data
Write3Items(h, offset, stable, data) == <<h, offset, Len(data), stable, data>>

\* CREATE3args: where.dir, where.name, how
Create3Items(dir, name, how) == <<dir, name, how>>

\* mapping: prog, vers, prot, port
MappingItems(map) == <<map.prog, map.vers, map.prot, map.port>>

\* NfsMessage::deserialize_write3args (protocol/v3/nfs.rs:138-142): unpack
\* fails when an item is missing or stable is no stable_how value.
DeserializeWrite3args(args_data) ==
    IF Len(args_data) < 5 THEN NoneOpt
    ELSE IF args_data[4] \notin 0..2 THEN NoneOpt
    ELSE Some([file |-> args_data[1], offset |-> args_data[2], data |-> args_data[5]])

\* NfsMessage::deserialize_create3args (protocol/v3/nfs.rs:178-182)
DeserializeCreate3args(args_data) ==
    IF Len(args_data) < 3 THEN NoneOpt
    ELSE Some([dir |-> args_data[1], name |-> args_data[2], how |-> args_data[3]])

\* A decoder that reads absent items as zero.
DeserializeMapping_Lenient(args_data) ==
    LET w(i) == IF i <= Len(args_data) THEN args_data[i] ELSE 0
    IN  Some([prog |-> w(1), vers |-> w(2), prot |-> w(3), port |-> w(4)])

\* PortmapMessage::deserialize_mapping (protocol/v3/portmap.rs:24-28)
DeserializeMapping(args_data) ==
    IF Len(args_data) < 4 THEN NoneOpt
    ELSE Some([prog |-> args_data[1], vers |-> args_data[2],
               prot |-> args_data[3], port |-> args_data[4]])

\* `deserialize_...(args_data)?` returned the error: the NFS or MOUNT
\* handler ends before its first use of the filesystem.
HandlerErr(name) ==
    /\ NfsFrame
    /\ Asked
    /\ reply' = [NoReply EXCEPT !.proc_ = name, !.status = "Err"]
    /\ NoHandleChange
    /\ UNCHANGED <<fs, gone, durable, verfs>>

\* The same in a portmap handler: the registry is not called.
PortmapErr(name) ==
    /\ pm' = [pm EXCEPT !.last = [NoPmapCall EXCEPT !.op = name], !.before = mappings]
    /\ UNCHANGED mappings
    /\ PmapFrame

\* handle_write (write.rs:24-46)
HandleWrite(c, args_data) ==
    \E args \in {DeserializeWrite3args(args_data)} :
        IF IsSome(args)
        THEN NfsWrite(c, Unwrap(args).file, Unwrap(args).offset, Unwrap(args).data)
        ELSE HandlerErr("WRITE")

\* handle_create (create.rs:30-47)
HandleCreate(args_data) ==
    \E args \in {DeserializeCreate3args(args_data)} :
        IF IsSome(args)
        THEN NfsCreate(Unwrap(args).dir, Unwrap(args).name, Unwrap(args).how)
        ELSE HandlerErr("CREATE")

\* mnt::handle (mnt.rs:21-28): args is the dirpath the arguments decode to,
\* None when they do not decode.
HandleMnt(args) ==
    IF IsSome(args) THEN MountMnt(Unwrap(args)) ELSE HandlerErr("MNT")

\* set::handle (portmap/set.rs:20-35)
HandleSet(args_data) ==
    \E map \in {DeserializeMapping(args_data)} :
        IF IsSome(map) THEN PortmapSet(Unwrap(map)) ELSE PortmapErr("SET")

\* unset::handle (portmap/unset.rs:20-35)
HandleUnset(args_data) ==
    \E map \in {DeserializeMapping(args_data)} :
        IF IsSome(map) THEN PortmapUnset(Unwrap(map)) ELSE PortmapErr("UNSET")

\* The calls of the clients.
WriteCalls == {Write3Items(h, 0, st, d) : h \in NfsHandles, st \in Stables, d \in Datas}
CreateCalls == {Create3Items(RootHandle, n, "UNCHECKED") : n \in Names}
MappingCalls == {MappingItems(map) : map \in {m \in PmapArgs : m.port # 0}}

\* Calls whose arguments end early or hold a value outside an enum.
BadWriteCalls ==
    (UNION {Truncations(a) : a \in WriteCalls}) \cup {a \in WriteCalls : a[4] = 7}
BadCreateCalls == UNION {Truncations(a) : a \in CreateCalls}
BadMappingCalls == UNION {Truncations(a) : a \in MappingCalls}

\* The calls served over all three programs stay within MaxDecodeOps.
DecodeBudget == nops + Len(pm.log) < MaxDecodeOps

NextDecode ==
    \/ \E c \in {"c1"}, a \in WriteCalls \cup BadWriteCalls : DecodeBudget /\ HandleWrite(c, a)
    \/ \E a \in CreateCalls \cup BadCreateCalls : DecodeBudget /\ HandleCreate(a)
    \/ \E a \in UmntArgs : DecodeBudget /\ HandleMnt(a)
    \/ \E a \in MappingCalls \cup BadMappingCalls : DecodeBudget /\ HandleSet(a)
    \/ \E a \in MappingCalls \cup BadMappingCalls : DecodeBudget /\ HandleUnset(a)

SpecDecode == InitNfs /\ [][NextDecode]_vars

\* C35: a call of WRITE, CREATE, MNT, SET or UNSET whose arguments do not
\* decode changes neither the file system nor the handle directory nor the
\* portmap registry.
C35_DecodeFailureFrame ==
    [][(\/ \E a \in BadWriteCalls : HandleWrite("c1", a)
        \/ \E a \in BadCreateCalls : HandleCreate(a)
        \/ HandleMnt(NoneOpt)
        \/ \E a \in BadMappingCalls : HandleSet(a)
        \/ \E a \in BadMappingCalls : HandleUnset(a))
       => UNCHANGED <<fs, gone, durable, handle_to_path, path_to_handle, next_id, mappings>>]_vars

\* A WRITE that did not decode was answered with the handler's error after
\* files had been created and written and services registered.
C35_Witness ==
    /\ reply.proc_ = "WRITE"
    /\ reply.status = "Err"
    /\ durable.stage = "written"
    /\ DOMAIN mappings # {}
    /\ Cardinality(DOMAIN handle_to_path) > 1

(***************************************************************************)
(* The offset of the procedure arguments (server.rs:160-203).              *)
(***************************************************************************)
\* The zero bytes XDR puts behind an opaque body of n bytes.
PadBytes(n) == [i \in 1..((4 - (n % 4)) % 4) |-> 0]

\* opaque_auth as a client encodes it: flavor, length, body, padding.
OpaqueAuth(flavor, body) == U32BE(flavor) \o U32BE(Len(body)) \o body \o PadBytes(Len(body))

\* The body of n bytes of a credential or verifier.
AuthBody(n) == [i \in 1..n |-> 1]

\* A CALL with a credential of c bytes and a verifier of v bytes.
CallWithAuth(xid, prog, proc, c, v, args) ==
    U32BE(xid) \o U32BE(0) \o U32BE(2) \o U32BE(prog) \o U32BE(NFS_V3) \o U32BE(proc)
        \o OpaqueAuth(1, AuthBody(c)) \o OpaqueAuth(0, AuthBody(v)) \o args

CredLens == {0, 1, 4, 6}
VerfLens == {0, 3, 4}
ProcArgs == {<<>>, <<7>>, <<7, 8, 9, 10, 11>>}
RxProgs == {NFS_PROGRAM, 99}

\* handle_rpc_message reaches the `match call.prog` with a known program.
Dispatched(data) ==
    /\ IsSome(DeserializeCall(data))
    /\ IsSome(ArgsOffset(data))
    /\ Unwrap(DeserializeCall(data)).prog \in {PORTMAP_PROGRAM, MOUNT_PROGRAM, NFS_PROGRAM}

\* A record arrives: a whole CALL, or one cut short after k bytes.
InitArgs ==
    /\ HmNew
    /\ ThreadsIdle
    /\ lastRet = NoHistory
    /\ issued = NoIssued
    /\ ConnUnused
    /\ NfsUnused
    /\ ReaddirUnused
    /\ PmapUnused
    /\ SetattrUnused
    /\ \E c \in CredLens, v \in VerfLens, a \in ProcArgs, prog \in RxProgs :
       \E whole \in {CallWithAuth(1, prog, 1, c, v, a)} :
       \E k \in 0..Len(whole) :
          rx = [data |-> SubSeq(whole, 1, k), cred |-> c, verf |-> v, args |-> a,
                stage |-> "received", dispatched |-> FALSE, args_data |-> <<>>]

\* handle_rpc_message up to the call of the handler (server.rs:140-227).
RpcHandle ==
    /\ rx.stage = "received"
    /\ rx' = [rx EXCEPT !.stage = "handled",
                        !.dispatched = Dispatched(rx.data),
                        !.args_data = IF Dispatched(rx.data)
                                      THEN ArgsData(rx.data, Unwrap(ArgsOffset(rx.data)))
                                      ELSE <<>>]
    /\ UNCHANGED <<hmVars, connVars, nfsVars, rd, pmVars, sa>>

NextArgs == RpcHandle

SpecArgs == InitArgs /\ [][NextArgs]_vars

\* Where the client put the arguments: behind the six fixed words and the
\* two opaque_auth, each with its body padded to a multiple of four.
ExpectedOffset(c, v) == 24 + 8 + c + Len(PadBytes(c)) + 8 + v + Len(PadBytes(v))

\* C36: the handler of a dispatched CALL with credential length c and
\* verifier length v receives exactly the record bytes from offset
\* 24 + 8 + pad4(c) + 8 + pad4(v) to the end of the record, and a record
\* too short to hold the credential header or the verifier header is not
\* dispatched.
C36_ArgsOffset ==
    rx.stage = "handled"
    => LET off == ExpectedOffset(rx.cred, rx.verf)
           n == Len(rx.data)
       IN  /\ (rx.dispatched /\ n >= 24 + 8 + rx.cred + Len(PadBytes(rx.cred)) + 8)
                => rx.args_data = IF n > off THEN SubSeq(rx.data, off + 1, n) ELSE <<>>
           /\ (rx.dispatched /\ n = off + Len(rx.args)) => rx.args_data = rx.args
           /\ n < 24 + 8 => ~rx.dispatched
           /\ n < 24 + 8 + rx.cred + Len(PadBytes(rx.cred)) + 8 => ~rx.dispatched

\* A whole CALL with a credential of 6 bytes and a verifier of 3 bytes was
\* dispatched with its five argument bytes.
C36_Witness ==
    /\ rx.stage = "handled"
    /\ rx.dispatched
    /\ rx.cred = 6 /\ rx.verf = 3
    /\ rx.args_data = <<7, 8, 9, 10, 11>>

(***************************************************************************)
(* eof of the backend's readdir (local/mod.rs:272-298).                    *)
(***************************************************************************)
\* C37: after a READDIR, eof is TRUE exactly when the entries returned so
\* far reach the last entry of the directory, also when the number of
\* entries that remained equals count.
C37_ReaddirEof ==
    rd.calls > 0 => (rd.eof <=> Len(rd.seen) = Len(rd.listing))

\* A call returned the last entries of the directory, as many as count
\* allows, and its eof is FALSE.
C37_LastEntryNoEof ==
    /\ rd.calls > 0
    /\ rd.got = rd.count
    /\ Len(rd.seen) = Len(rd.listing)
    /\ ~rd.eof

(***************************************************************************)
(* The handle directory under calls that do not overlap: a thread starts   *)
(* and continues a call only while no other thread is inside one or is    *)
(* still holding the result of one.                                        *)
(***************************************************************************)
Alone(t) == \A u \in Threads \ {t} : pc[u] = "idle"

NextSeq ==
    \E t \in Threads :
        \/ \E p \in HmPaths : Alone(t) /\ CreateCheck(t, p)
        \/ Alone(t) /\ CreateGenId(t)
        \/ Alone(t) /\ CreateLockH(t)
        \/ Alone(t) /\ CreateLockP(t)
        \/ Alone(t) /\ CreateInsert(t)
        \/ \E h \in HmHandles : Alone(t) /\ RemoveLockH(t, h)
        \/ Alone(t) /\ RemoveLockP(t)
        \/ Alone(t) /\ RemoveDo(t)
        \/ \E h \in HmHandles : Alone(t) /\ HmLookupPath(t, h)
        \/ \E h \in HmHandles : Alone(t) /\ HmIsValid(t, h)
        \/ Alone(t) /\ HmCount(t)
        \/ HmReturn(t)

SpecSeq == InitHM /\ [][NextSeq]_vars

\* C38: with calls that do not overlap, handle_to_path and path_to_handle
\* are inverses of each other in every state, and count() returns the
\* number of mapped paths.
C38_MapsInverse ==
    /\ \A h \in DOMAIN handle_to_path :
          /\ handle_to_path[h] \in DOMAIN path_to_handle
          /\ path_to_handle[handle_to_path[h]] = h
    /\ \A p \in DOMAIN path_to_handle :
          /\ path_to_handle[p] \in DOMAIN handle_to_path
          /\ handle_to_path[path_to_handle[p]] = p
    /\ \A t \in Threads :
          (pc[t] = "done" /\ op[t] = "count")
              => ret[t] = Tagged("usize", Cardinality(DOMAIN path_to_handle))

\* count() has returned 1 after two handles were created and one of them
\* was removed.
C38_Witness ==
    \E t \in Threads :
        /\ pc[t] = "done"
        /\ op[t] = "count"
        /\ ret[t] = Tagged("usize", 1)
        /\ next_id >= 3
        /\ Cardinality(DOMAIN handle_to_path) = 1

(***************************************************************************)
(* WRITE on the handle of a removed file.                                  *)
(***************************************************************************)
NextStale ==
    \/ \E h \in NfsHandles, n \in Names : NfsCreate(h, n, "UNCHECKED")
    \/ \E h \in NfsHandles, n \in Names : NfsRemove(h, n)
    \/ \E c \in Conns, h \in NfsHandles, o \in Offsets, d \in Datas : NfsWrite(c, h, o, d)
    \/ \E h \in NfsHandles : NfsGetattr(h)

SpecStale == InitNfs /\ [][NextStale]_vars

\* No object is at the path the handle h resolves to.
NothingAt(f, hmap, h) ==
    /\ IsSome(ResolveHandle(hmap, h))
    /\ ~IsSome(Resolve(f, Unwrap(ResolveHandle(hmap, h))))

\* C39: a WRITE on a handle whose file is not there fails, and the file is
\* not there afterwards either: WRITE creates no directory entry.
C39_WriteNeverCreates ==
    [][\A c \in Conns, h \in DOMAIN handle_to_path, o \in Offsets, d \in Datas :
          (NothingAt(fs, handle_to_path, h) /\ NfsWrite(c, h, o, d))
              => /\ reply'.status # "NFS3_OK"
                 /\ NothingAt(fs', handle_to_path', h)]_vars

(***************************************************************************)
(* Progress of the HandleManager calls.  A thread inside a call keeps      *)
(* running (weak fairness of its steps); a thread that waits for the write *)
(* lock on handle_to_path gets it once it has been free often enough       *)
(* (strong fairness of that one acquisition).                              *)
(***************************************************************************)
\* Every step of a call changes the position of its thread.
ThreadFair(t) ==
    /\ WF_pc(CreateGenId(t))
    /\ SF_pc(CreateLockH(t))
    /\ WF_pc(CreateLockP(t))
    /\ WF_pc(CreateInsert(t))
    /\ WF_pc(RemoveLockP(t))
    /\ WF_pc(RemoveDo(t))

SpecHMFair == SpecHM /\ \A t \in Threads : ThreadFair(t)

\* The thread is inside create_handle or remove_handle, between two lock scopes.
InCall(t) == pc[t] \in {"c_id", "c_lock_h", "c_lock_p", "c_insert", "r_lock_p", "r_remove"}

====
